---- MODULE Spec2Model ----
(***************************************************************************)
(* State-machine model of the snappy device agents: the Rpi3 agent's       *)
(* boot-mode recovery (ensure_master_image), its test-image boot           *)
(* (ensure_test_image), and its provisioning run (provision) together with *)
(* the image-server task (snappy_device_agents.serve_file), the image      *)
(* inspector (get_image_type, remote_mount), the user seeder (create_user) *)
(* and the post-provision script; the transfer of an image byte by byte    *)
(* (compress_file, serve_file, the writer's pipeline); and the deployment  *)
(* and the release of a node by the Maas2 agent (provision, node_release). *)
(*                                                                         *)
(* Time is wall-clock seconds as read by time.time(); a sleep adds its     *)
(* length, a probe adds a duration drawn from ProbeDurations.              *)
(***************************************************************************)
EXTENDS Integers, Sequences, FiniteSets, TLC

(***************************************************************************)
(* Program constants (rpi3.py) and bounds of the model.                    *)
(***************************************************************************)
MasterBudget == 300
TestBudget == 600
PollInterval == 10
ProbeTimeout == 60

\* Counters of re-invocations and hard resets saturate at MaxCount.
MaxCount == 3
\* Number of commands in each configured script (select_master_script,
\* select_test_script, reboot_script).
ScriptLen == 2
\* Number of chunks the image server reads from the compressed image.
NChunks == 2
\* Longest image, in bytes, and the bytes it is made of.
MaxImageLen == 4
Bytes == {0, 1}
\* Bytes the image server reads and sends at a time (16 MiB in the code).
ChunkLen == 2
\* Most partitions lsblk reports on the target device.
MaxParts == 2
\* Most commands config["post_provision_script"] holds.
MaxPost == 2

\* Outcomes of subprocess.check_output / check_call with a timeout:
\* exit status 0, CalledProcessError, TimeoutExpired.
RunResults == {"ok", "fail", "timeout"}
\* How long a probe takes: it answers at once or runs into its timeout.
ProbeDurations == {0, ProbeTimeout}

Sat(n) == IF n < MaxCount THEN n + 1 ELSE MaxCount

VARIABLES
    \* ---- ensure_master_image ----
    mpc,        \* position in ensure_master_image
    mElapsed,   \* time.time() - started of the current poll loop
    mOutcome,   \* "none" | "return" | "ProvisioningError" | "RecoveryError"
    mDepth,     \* self re-invocations made so far in this call (saturating)
    mResets,    \* hard resets issued in the current invocation
    mTotalResets, \* hard resets issued in the whole call (saturating)
    mSetboots,  \* setboot calls in the whole call (saturating)
    mPolls,     \* poll loops entered in the current invocation
    mExhausted, \* a poll loop of the current invocation ran out of budget
    mEntry,     \* how the call started: "none" | "test" | "control" | "unknown"
    mLastProbe, \* the last probe made: [kind, result], with the outcome of
                \*   its command (run) and whether its output held "GNU"
    mScript     \* the last command script run: [name, ran, failed]

mvars == <<mpc, mElapsed, mOutcome, mDepth, mResets, mTotalResets, mSetboots,
           mPolls, mExhausted, mEntry, mLastProbe, mScript>>

VARIABLES
    \* ---- ensure_test_image ----
    tpc,        \* position in ensure_test_image ("idle" when not called)
    tElapsed,   \* time.time() - started
    tOutcome,   \* "none" | "return" | "ProvisioningError"
    tBooted,    \* the local test_image_booted
    tHs,        \* the login handshake of the current poll: "none" | "ok" | "fail" | "hang"
    tProbed,    \* is_test_image_booted was called in the current poll
    tIters,     \* poll iterations begun (saturating)
    tSetbootOk, \* setboot("test") returned
    tReboot,    \* result of the soft reboot command ("none" before it)
    tSettled,   \* the 60 s settle delay has elapsed
    tCreds,     \* the parameters test_username / test_password
    tHsCreds,   \* the credentials the last handshake was made with
    tScript     \* the last command script run: [name, ran, failed]

tvars == <<tpc, tElapsed, tOutcome, tBooted, tHs, tProbed, tIters, tSetbootOk,
           tReboot, tSettled, tCreds, tHsCreds, tScript>>

VARIABLES
    \* ---- Rpi3.provision ----
    ppc,        \* position in provision
    pStage,     \* the stage the run is in or failed in
    pErr,       \* the exception in flight: [kind, stage] ("none" when none)
    pOutcome,   \* "none" | "return" | the kind of the exception raised
    pPending,   \* exception raised inside the with-block of remote_mount
    hasUrl,         \* job_data["provision_data"] has a url
    hasTestDevice,  \* config has a test_device field
    jobCreds,       \* job_data["test_data"] credentials, "absent" when none
    imageType,  \* image_type returned by get_image_type
    imageDev,   \* image_dev returned by get_image_type
    wipeCalls,  \* calls of wipe_test_device
    wipeResult, \* how the wipe went: "none" | "ok" | "fail" | "timeout" | "KeyError"
    wDone,      \* the writer's remote command has ended: "no" | "ok" | "fail" | "timeout"
    cmds        \* kinds of command sent to the control host so far

pvars == <<ppc, pStage, pErr, pOutcome, pPending, hasUrl, hasTestDevice,
           jobCreds, imageType, imageDev, wipeCalls, wipeResult, wDone>>

VARIABLES
    \* ---- serve_file (the image-server task) and its connection ----
    spc,        \* position in serve_file ("none" before the task is started)
    q,          \* serve_q: the ports put and not yet taken
    sSent,      \* chunks handed to client.send
    sKilledAt,  \* position at which terminate() hit the task ("none": not hit)
    wconn       \* the writer's connection: "none" | "refused" | "open" | "eof"
                \*   | "closed" (by the client) | "reset" (never accepted)

svars == <<spc, q, sSent, sKilledAt, wconn>>

VARIABLES
    \* ---- the listening socket of serve_file and a second client ----
    sAccepts,   \* connections returned by server.accept()
    sClient,    \* the connection being served: "none" | "first" | "second"
    backlog,    \* connections the kernel completed on the listening socket
                \*   and accept has not returned yet, oldest first
    conn2       \* the connection of a second client, with the values of wconn

avars == <<sAccepts, sClient, backlog, conn2>>

VARIABLES
    \* ---- remote_mount: the mount scopes of the run ----
    mntPending  \* partitions mounted through remote_mount whose unmount has
                \*   not been issued yet

VARIABLES
    \* ---- get_image_type ----
    ipc,        \* position in get_image_type ("idle" when not called)
    iChildren,  \* blockdevices[0]["children"] as lsblk printed it: one set
                \*   of top-level entries per partition
    iIdx,       \* index in dev_list of the partition being looked at
    iDev,       \* the local dev: test_device at first, then the loop variable
    iDirs,      \* the local dirs: what "ls /mnt" listed
    iRet,       \* value of a return statement whose finally clause is running
    iFound,     \* the partitions on whose listing a marker path was found
    iResult,    \* the value returned: [type, dev]
    iOutcome    \* "none" | "return" | the kind of the exception raised

ivars == <<ipc, iChildren, iIdx, iDev, iDirs, iRet, iFound, iResult, iOutcome>>

VARIABLES
    \* ---- create_user ----
    uSent,      \* the commands create_user has sent, in order
    uFiles,     \* the files its commands have written
    uRemoved,   \* the files its commands have deleted
    uScope      \* what was mounted by the run when it last sent a command

uvars == <<uSent, uFiles, uRemoved, uScope>>

VARIABLES
    \* ---- run_post_provision_script ----
    postScript, \* number of commands of config["post_provision_script"]
                \*   (0 outside the call)
    postLog     \* the outcome of each command attempted, in order

ovars == <<postScript, postLog>>

VARIABLES
    \* ---- compress_file, serve_file and the writer's pipeline, byte-wise ----
    rpc,        \* position in the transfer of one image
    rImage,     \* the bytes of the downloaded image
    rFile,      \* the bytes of the file compress_file wrote
    rStream,    \* the bytes the server has sent to the writer's nc
    rWritten,   \* the bytes dd has written to the target device
    rStatus     \* exit status of the writer's pipeline ("none" before its end)

rvars == <<rpc, rImage, rFile, rStream, rWritten, rStatus>>

VARIABLES
    \* ---- Maas2.node_release ----
    npc,        \* position in node_release
    nStatuses,  \* the status_name each poll reported, in order
    nElapsed,   \* seconds slept
    nOutcome    \* "none" | "return" | the kind of the exception raised

nvars == <<npc, nStatuses, nElapsed, nOutcome>>

VARIABLES
    \* ---- Maas2.provision ----
    dpc,        \* position in Maas2.provision
    dPolls,     \* per status poll so far: was it Deployed with a good probe
    dProbes,    \* calls of check_test_image_booted so far
    dLast,      \* the last poll: [status, probe], probe "none" when not made
    dElapsed,   \* seconds slept
    dOutcome    \* "none" | "return" | the kind of the exception raised

dvars == <<dpc, dPolls, dProbes, dLast, dElapsed, dOutcome>>

VARIABLES
    \* ---- what the Rpi3 agent logged and what flash_test_image ran ----
    pLog,       \* messages provision and wipe_test_device logged, in order
    fLog        \* [step, result] of each command of the flash_test_image
                \* call in progress, in order

hvars == <<pLog, fLog>>

\* Variables no step of the Rpi3 agent or of its server task touches.
zvars == <<rvars, nvars, dvars>>
\* Variables no step of serve_file touches, besides those of the agent.
yvars == <<mntPending, ivars, uvars, ovars, zvars, hvars>>
\* Variables no step of ensure_master_image or ensure_test_image touches,
\* besides those of provision and serve_file.
xvars == <<avars, yvars>>

vars == <<mvars, tvars, pvars, cmds, svars, xvars>>

(***************************************************************************)
(* Boot verifier, rpi3.py 203-250.                                         *)
(***************************************************************************)
\* is_test_image_booted: "snap -h" over ssh; any exception gives False.
is_test_image_booted(r) == r = "ok"

\* Faulty variant of is_master_image_booted: any output will do.
is_master_image_booted_AnyOutput(r, gnu) == r = "ok"

\* is_master_image_booted: "cat /etc/issue" on the control host; any
\* exception gives False, otherwise whether the output contains "GNU".
is_master_image_booted(r, gnu) == IF r # "ok" THEN FALSE ELSE gnu

(***************************************************************************)
(* Boot-mode controller, rpi3.py 115-155.  A script is run command by      *)
(* command; failAt = 0 when no command fails, else the index of the first  *)
(* failing command, after which nothing more is run; how tells whether     *)
(* that command exited non-zero ("fail") or ran into the timeout of        *)
(* check_call ("timeout"): except Exception catches both.                  *)
(***************************************************************************)
ScriptFailures == {"fail", "timeout"}

\* Faulty variant of ScriptRun: the commands after a failing one are run.
ScriptRun_RunsOn(name, failAt, how) ==
    [name |-> name,
     ran |-> ScriptLen,
     failed |-> failAt # 0,
     failAt |-> failAt,
     how |-> IF failAt = 0 THEN "ok" ELSE how]

ScriptRun(name, failAt, how) ==
    [name |-> name,
     ran |-> IF failAt = 0 THEN ScriptLen ELSE failAt,
     failed |-> failAt # 0,
     failAt |-> failAt,
     how |-> IF failAt = 0 THEN "ok" ELSE how]

\* setboot raises ProvisioningError on any failing command.
setbootError == "ProvisioningError"
\* hardreset raises RecoveryError on any failing command.
hardresetError == "RecoveryError"

NoProbe == [kind |-> "none", result |-> FALSE, run |-> "none", gnu |-> FALSE]
NoScript == [name |-> "none", ran |-> 0, failed |-> FALSE, failAt |-> 0,
             how |-> "none"]

(***************************************************************************)
(* ensure_master_image, rpi3.py 252-298.                                   *)
(***************************************************************************)
MEnd(outcome) ==
    /\ mpc' = "done"
    /\ mOutcome' = outcome

\* line 262: test_booted = self.is_test_image_booted()
EMI_ProbeTest ==
    /\ mpc = "start"
    /\ \E r \in RunResults :
        LET test_booted == is_test_image_booted(r) IN
        /\ mLastProbe' = [kind |-> "test", result |-> test_booted,
                          run |-> r, gnu |-> FALSE]
        /\ mpc' = IF test_booted THEN "setboot" ELSE "probe_master"
        /\ mEntry' = IF mEntry = "none" /\ test_booted THEN "test" ELSE mEntry
    /\ UNCHANGED <<mElapsed, mOutcome, mDepth, mResets, mTotalResets,
                   mSetboots, mPolls, mExhausted, mScript>>
    /\ UNCHANGED <<tvars, pvars, cmds, svars, xvars>>

\* line 266: self.setboot("master")
EMI_Setboot ==
    /\ mpc = "setboot"
    /\ \E failAt \in 0..ScriptLen, how \in ScriptFailures :
        /\ mScript' = ScriptRun("select_master_script", failAt, how)
        /\ IF failAt = 0
           THEN mpc' = "reset_t" /\ UNCHANGED mOutcome
           ELSE MEnd(setbootError)
    /\ mSetboots' = Sat(mSetboots)
    /\ UNCHANGED <<mElapsed, mDepth, mResets, mTotalResets, mPolls,
                   mExhausted, mEntry, mLastProbe>>
    /\ UNCHANGED <<tvars, pvars, cmds, svars, xvars>>

\* hardreset followed by started = time.time() (lines 267-269, 284-285)
Hardreset(next) ==
    /\ \E failAt \in 0..ScriptLen, how \in ScriptFailures :
        /\ mScript' = ScriptRun("reboot_script", failAt, how)
        /\ IF failAt = 0
           THEN mpc' = next /\ mPolls' = mPolls + 1 /\ UNCHANGED mOutcome
           ELSE MEnd(hardresetError) /\ UNCHANGED mPolls
    /\ mResets' = mResets + 1
    /\ mTotalResets' = Sat(mTotalResets)
    /\ mElapsed' = 0
    /\ UNCHANGED <<mDepth, mSetboots, mExhausted, mEntry, mLastProbe>>

\* line 267
EMI_ResetT ==
    /\ mpc = "reset_t"
    /\ Hardreset("poll_t")
    /\ UNCHANGED <<tvars, pvars, cmds, svars, xvars>>

\* lines 270-274: one iteration of the poll of the test-booted branch
EMI_PollT ==
    /\ mpc = "poll_t"
    /\ mElapsed < MasterBudget
    /\ \E r \in RunResults, gnu \in BOOLEAN, d \in ProbeDurations :
        LET master_booted == is_master_image_booted(r, gnu) IN
        /\ mElapsed' = mElapsed + PollInterval + d
        /\ mLastProbe' = [kind |-> "master", result |-> master_booted,
                          run |-> r, gnu |-> (r = "ok" /\ gnu)]
        /\ IF master_booted
           THEN MEnd("return")
           ELSE UNCHANGED <<mpc, mOutcome>>
    /\ UNCHANGED <<mDepth, mResets, mTotalResets, mSetboots, mPolls,
                   mExhausted, mEntry, mScript>>
    /\ UNCHANGED <<tvars, pvars, cmds, svars, xvars>>

\* Faulty variant of EMI_TimeoutT: the exhausted poll of the test-booted
\* branch does not raise and falls through to line 279.
EMI_TimeoutT_FallsThrough ==
    /\ mpc = "poll_t"
    /\ ~(mElapsed < MasterBudget)
    /\ mExhausted' = TRUE
    /\ mpc' = "probe_master"
    /\ UNCHANGED <<mElapsed, mOutcome, mDepth, mResets, mTotalResets,
                   mSetboots, mPolls, mEntry, mLastProbe, mScript>>
    /\ UNCHANGED <<tvars, pvars, cmds, svars, xvars>>

\* lines 275-277: the budget ran out; master_booted is False here
EMI_TimeoutT ==
    /\ mpc = "poll_t"
    /\ ~(mElapsed < MasterBudget)
    /\ mExhausted' = TRUE
    /\ IF ~mLastProbe.result
       THEN MEnd("RecoveryError")
       ELSE mpc' = "probe_master" /\ UNCHANGED mOutcome
    /\ UNCHANGED <<mElapsed, mDepth, mResets, mTotalResets, mSetboots,
                   mPolls, mEntry, mLastProbe, mScript>>
    /\ UNCHANGED <<tvars, pvars, cmds, svars, xvars>>

\* Faulty variant of EMI_ProbeMaster: the device is hard reset whatever the
\* probe of the master image says.
EMI_ProbeMaster_ResetsAnyway ==
    /\ mpc = "probe_master"
    /\ \E r \in RunResults, gnu \in BOOLEAN :
        LET master_booted == is_master_image_booted(r, gnu) IN
        /\ mLastProbe' = [kind |-> "master", result |-> master_booted,
                          run |-> r, gnu |-> (r = "ok" /\ gnu)]
        /\ mEntry' = IF mEntry = "none"
                     THEN (IF master_booted THEN "control" ELSE "unknown")
                     ELSE mEntry
        /\ mpc' = "reset_u" /\ UNCHANGED mOutcome
    /\ UNCHANGED <<mElapsed, mDepth, mResets, mTotalResets, mSetboots,
                   mPolls, mExhausted, mScript>>
    /\ UNCHANGED <<tvars, pvars, cmds, svars, xvars>>

\* lines 279-280 and 298: master_booted = self.is_master_image_booted()
EMI_ProbeMaster ==
    /\ mpc = "probe_master"
    /\ \E r \in RunResults, gnu \in BOOLEAN :
        LET master_booted == is_master_image_booted(r, gnu) IN
        /\ mLastProbe' = [kind |-> "master", result |-> master_booted,
                          run |-> r, gnu |-> (r = "ok" /\ gnu)]
        /\ mEntry' = IF mEntry = "none"
                     THEN (IF master_booted THEN "control" ELSE "unknown")
                     ELSE mEntry
        /\ IF master_booted
           THEN MEnd("return")
           ELSE mpc' = "reset_u" /\ UNCHANGED mOutcome
    /\ UNCHANGED <<mElapsed, mDepth, mResets, mTotalResets, mSetboots,
                   mPolls, mExhausted, mScript>>
    /\ UNCHANGED <<tvars, pvars, cmds, svars, xvars>>

\* line 284
EMI_ResetU ==
    /\ mpc = "reset_u"
    /\ Hardreset("poll_u")
    /\ UNCHANGED <<tvars, pvars, cmds, svars, xvars>>

\* Faulty variant of Reinvoke: the test image detected during the poll of
\* the unknown-state branch ends the call with a normal return.
Reinvoke_ReturnsAtOnce ==
    /\ MEnd("return")
    /\ UNCHANGED <<mDepth, mResets, mPolls, mExhausted>>

\* line 293: return self.ensure_master_image().  The result of the nested
\* call is returned as it is, so the nested call takes the place of this
\* one; the code bounds the nesting nowhere.
Reinvoke ==
    /\ mpc' = "start"
    /\ mDepth' = Sat(mDepth)
    /\ mResets' = 0
    /\ mPolls' = 0
    /\ mExhausted' = FALSE
    /\ UNCHANGED mOutcome

\* lines 286-293: one iteration of the poll of the unknown-state branch
EMI_PollU ==
    /\ mpc = "poll_u"
    /\ mElapsed < MasterBudget
    /\ \E r \in RunResults, gnu \in BOOLEAN, d \in ProbeDurations :
        IF is_master_image_booted(r, gnu)
        THEN /\ mElapsed' = mElapsed + PollInterval + d
             /\ mLastProbe' = [kind |-> "master", result |-> TRUE,
                               run |-> r, gnu |-> (r = "ok" /\ gnu)]
             /\ MEnd("return")
             /\ UNCHANGED <<mDepth, mResets, mPolls, mExhausted>>
        ELSE \E rt \in RunResults, dt \in ProbeDurations :
             /\ mElapsed' = mElapsed + PollInterval + d + dt
             /\ mLastProbe' = [kind |-> "test",
                               result |-> is_test_image_booted(rt),
                               run |-> rt, gnu |-> FALSE]
             /\ IF is_test_image_booted(rt)
                THEN Reinvoke
                ELSE UNCHANGED <<mpc, mOutcome, mDepth, mResets, mPolls,
                                 mExhausted>>
    /\ UNCHANGED <<mTotalResets, mSetboots, mEntry, mScript>>
    /\ UNCHANGED <<tvars, pvars, cmds, svars, xvars>>

\* Faulty variant of EMI_TimeoutU: the exhausted poll ends the call with a
\* normal return instead of RecoveryError.
EMI_TimeoutU_Returns ==
    /\ mpc = "poll_u"
    /\ ~(mElapsed < MasterBudget)
    /\ mExhausted' = TRUE
    /\ MEnd("return")
    /\ UNCHANGED <<mElapsed, mDepth, mResets, mTotalResets, mSetboots,
                   mPolls, mEntry, mLastProbe, mScript>>
    /\ UNCHANGED <<tvars, pvars, cmds, svars, xvars>>

\* lines 294-297: the budget ran out
EMI_TimeoutU ==
    /\ mpc = "poll_u"
    /\ ~(mElapsed < MasterBudget)
    /\ mExhausted' = TRUE
    /\ MEnd("RecoveryError")
    /\ UNCHANGED <<mElapsed, mDepth, mResets, mTotalResets, mSetboots,
                   mPolls, mEntry, mLastProbe, mScript>>
    /\ UNCHANGED <<tvars, pvars, cmds, svars, xvars>>

ensure_master_image ==
    \/ EMI_ProbeTest
    \/ EMI_Setboot
    \/ EMI_ResetT
    \/ EMI_PollT
    \/ EMI_TimeoutT
    \/ EMI_ProbeMaster
    \/ EMI_ResetU
    \/ EMI_PollU
    \/ EMI_TimeoutU

(***************************************************************************)
(* ensure_test_image, rpi3.py 157-201.                                     *)
(***************************************************************************)
\* How a login handshake (sshpass ssh-copy-id, run by subprocess.check_call
\* with no timeout) can end: exit status 0, non-zero exit, or not at all.
Handshakes == {"ok", "fail", "hang"}
\* How long a handshake that ends takes; nothing bounds it.
HandshakeDurations == {0, ProbeTimeout, TestBudget}

TEnd(outcome) ==
    /\ tpc' = "done"
    /\ tOutcome' = outcome

\* line 169: self.setboot("test")
ETI_Setboot ==
    /\ tpc = "start"
    /\ \E failAt \in 0..ScriptLen, how \in ScriptFailures :
        /\ tScript' = ScriptRun("select_test_script", failAt, how)
        /\ IF failAt = 0
           THEN tpc' = "reboot" /\ tSetbootOk' = TRUE /\ UNCHANGED tOutcome
           ELSE TEnd(setbootError) /\ UNCHANGED tSetbootOk
    /\ UNCHANGED <<tElapsed, tBooted, tHs, tProbed, tIters, tReboot, tSettled,
                   tCreds, tHsCreds, cmds>>
    /\ UNCHANGED <<mvars, pvars, svars, xvars>>

\* lines 170-178: the soft reboot, whose failure is passed over, the settle
\* delay, started = time.time(), test_image_booted = False
ETI_Reboot ==
    /\ tpc = "reboot"
    /\ \E r \in RunResults : tReboot' = r
    /\ cmds' = cmds \cup {"reboot"}
    /\ tSettled' = TRUE
    /\ tElapsed' = 0
    /\ tBooted' = FALSE
    /\ tpc' = "poll"
    /\ UNCHANGED <<tOutcome, tHs, tProbed, tIters, tSetbootOk, tCreds,
                   tHsCreds, tScript>>
    /\ UNCHANGED <<mvars, pvars, svars, xvars>>

\* Faulty variant of ETI_Poll: the try covers the handshake only, so the
\* probe is made even when the handshake failed.
ETI_Poll_ProbesAnyway ==
    /\ tpc = "poll"
    /\ tElapsed < TestBudget
    /\ tIters' = Sat(tIters)
    /\ tHsCreds' = tCreds
    /\ \E h \in Handshakes :
        /\ tHs' = h
        /\ IF h = "hang"
           THEN /\ tpc' = "handshake"
                /\ tElapsed' = tElapsed + PollInterval
                /\ tProbed' = FALSE
                /\ UNCHANGED <<tBooted, tOutcome>>
           ELSE \E dh \in HandshakeDurations, r \in RunResults,
                   d \in ProbeDurations :
                   /\ tElapsed' = tElapsed + PollInterval + dh + d
                   /\ tProbed' = TRUE
                   /\ tBooted' = is_test_image_booted(r)
                   /\ IF is_test_image_booted(r)
                      THEN TEnd("return")
                      ELSE UNCHANGED <<tpc, tOutcome>>
    /\ UNCHANGED <<tSetbootOk, tReboot, tSettled, tCreds, tScript, cmds>>
    /\ UNCHANGED <<mvars, pvars, svars, xvars>>

\* lines 179-198: one iteration of the poll.  The handshake is made with
\* the credentials passed in; when it raises, the probe is skipped.
ETI_Poll ==
    /\ tpc = "poll"
    /\ tElapsed < TestBudget
    /\ tIters' = Sat(tIters)
    /\ tHsCreds' = tCreds
    /\ \E h \in Handshakes :
        /\ tHs' = h
        /\ CASE h = "hang" ->
                  /\ tpc' = "handshake"
                  /\ tElapsed' = tElapsed + PollInterval
                  /\ tProbed' = FALSE
                  /\ UNCHANGED <<tBooted, tOutcome>>
             [] h = "fail" ->
                  /\ \E dh \in HandshakeDurations :
                        tElapsed' = tElapsed + PollInterval + dh
                  /\ tProbed' = FALSE
                  /\ UNCHANGED <<tpc, tBooted, tOutcome>>
             [] h = "ok" ->
                  \E dh \in HandshakeDurations, r \in RunResults,
                     d \in ProbeDurations :
                     /\ tElapsed' = tElapsed + PollInterval + dh + d
                     /\ tProbed' = TRUE
                     /\ tBooted' = is_test_image_booted(r)
                     /\ IF is_test_image_booted(r)
                        THEN TEnd("return")
                        ELSE UNCHANGED <<tpc, tOutcome>>
    /\ UNCHANGED <<tSetbootOk, tReboot, tSettled, tCreds, tScript, cmds>>
    /\ UNCHANGED <<mvars, pvars, svars, xvars>>

\* lines 199-201: the budget ran out without test_image_booted
ETI_Timeout ==
    /\ tpc = "poll"
    /\ ~(tElapsed < TestBudget)
    /\ IF ~tBooted THEN TEnd("ProvisioningError") ELSE TEnd("return")
    /\ UNCHANGED <<tElapsed, tBooted, tHs, tProbed, tIters, tSetbootOk,
                   tReboot, tSettled, tCreds, tHsCreds, tScript, cmds>>
    /\ UNCHANGED <<mvars, pvars, svars, xvars>>

\* At tpc = "handshake" the call is inside subprocess.check_call(cmd) of
\* line 193 with a command that does not end: no step of it is enabled.
ensure_test_image ==
    \/ ETI_Setboot
    \/ ETI_Reboot
    \/ ETI_Poll
    \/ ETI_Timeout

(***************************************************************************)
(* Remote control channel, rpi3.py 49-75: a non-zero exit is raised as     *)
(* ProvisioningError; a timeout leaves check_output as TimeoutExpired.     *)
(***************************************************************************)
RunControlError(r) == IF r = "fail" THEN "ProvisioningError" ELSE "TimeoutExpired"

NoErr == [kind |-> "none", stage |-> "none"]
Err(kind, stage) == [kind |-> kind, stage |-> stage]

(***************************************************************************)
(* serve_file, snappy_device_agents/__init__.py 177-199, run as a          *)
(* multiprocessing.Process beside provision.                               *)
(***************************************************************************)
\* Positions at which the server socket accepts incoming connections.
Listening == {"listening"}
\* Positions at which the task has ended.
ServerEnded == {"closed", "crashed", "terminated"}
\* Positions at which the listening socket is open: from listen (line 190)
\* to server.close() (line 199) the kernel completes the handshake of an
\* incoming connection and queues it, whether or not accept is called.
SocketOpen == {"listening", "serving", "client_closed"}
\* What becomes of connection c of client who when the socket is closed or
\* its process ends: a connection still waiting for accept is reset.
Drop(c, who) ==
    IF \E i \in 1..Len(backlog) : backlog[i] = who THEN "reset" ELSE c
\* What a client gets that tries to connect.
Connect == IF spc \in SocketOpen THEN "open" ELSE "refused"
Enqueue(who) == IF spc \in SocketOpen THEN Append(backlog, who) ELSE backlog

\* lines 186-187: server = socket.socket(); server.bind(("0.0.0.0", 0))
Serve_Bind ==
    /\ spc = "started"
    /\ spc' = "bound"
    /\ UNCHANGED <<q, sSent, sKilledAt, wconn, avars>>
    /\ UNCHANGED <<mvars, tvars, pvars, cmds, yvars>>

\* lines 188-189: port = server.getsockname()[1]; q.put(port)
Serve_PutPort ==
    /\ spc = "bound"
    /\ q' = Append(q, "port")
    /\ spc' = "port_put"
    /\ UNCHANGED <<sSent, sKilledAt, wconn, avars>>
    /\ UNCHANGED <<mvars, tvars, pvars, cmds, yvars>>

\* line 190: server.listen(1); the task then blocks in accept (line 191)
Serve_Listen ==
    /\ spc = "port_put"
    /\ spc' = "listening"
    /\ UNCHANGED <<q, sSent, sKilledAt, wconn, avars>>
    /\ UNCHANGED <<mvars, tvars, pvars, cmds, yvars>>

\* line 191: (client, addr) = server.accept() returns the oldest connection
\* waiting on the socket
Serve_Accept ==
    /\ spc \in Listening
    /\ backlog # <<>>
    /\ sClient' = Head(backlog)
    /\ backlog' = Tail(backlog)
    /\ sAccepts' = sAccepts + 1
    /\ spc' = "serving"
    /\ UNCHANGED <<q, sSent, sKilledAt, wconn, conn2>>
    /\ UNCHANGED <<mvars, tvars, pvars, cmds, yvars>>

\* lines 193-197: read one chunk and client.send it; a send to a peer that
\* has gone may still be taken by the kernel or raise, which ends the task
\* and with it the listening socket
Serve_Send ==
    /\ spc = "serving"
    /\ sSent < NChunks
    /\ \/ /\ sSent' = sSent + 1
          /\ UNCHANGED <<spc, wconn, conn2, backlog>>
       \/ /\ \/ sClient = "first" /\ wconn = "closed"
             \/ sClient = "second" /\ conn2 = "closed"
          /\ spc' = "crashed"
          /\ wconn' = Drop(wconn, "first")
          /\ conn2' = Drop(conn2, "second")
          /\ backlog' = <<>>
          /\ UNCHANGED sSent
    /\ UNCHANGED <<q, sKilledAt, sAccepts, sClient>>
    /\ UNCHANGED <<mvars, tvars, pvars, cmds, yvars>>

\* Faulty variant of Serve_CloseClient: the task goes back to accept, as a
\* general-purpose server would.
Serve_CloseClient_AcceptsAgain ==
    /\ spc = "serving"
    /\ sSent = NChunks
    /\ spc' = "listening"
    /\ wconn' = IF sClient = "first" /\ wconn = "open" THEN "eof" ELSE wconn
    /\ conn2' = IF sClient = "second" /\ conn2 = "open" THEN "eof" ELSE conn2
    /\ UNCHANGED <<q, sSent, sKilledAt, sAccepts, sClient, backlog>>
    /\ UNCHANGED <<mvars, tvars, pvars, cmds, yvars>>

\* lines 195-198: end of file; client.close()
Serve_CloseClient ==
    /\ spc = "serving"
    /\ sSent = NChunks
    /\ spc' = "client_closed"
    /\ wconn' = IF sClient = "first" /\ wconn = "open" THEN "eof" ELSE wconn
    /\ conn2' = IF sClient = "second" /\ conn2 = "open" THEN "eof" ELSE conn2
    /\ UNCHANGED <<q, sSent, sKilledAt, sAccepts, sClient, backlog>>
    /\ UNCHANGED <<mvars, tvars, pvars, cmds, yvars>>

\* line 199: server.close(); the task ends
Serve_CloseServer ==
    /\ spc = "client_closed"
    /\ spc' = "closed"
    /\ wconn' = Drop(wconn, "first")
    /\ conn2' = Drop(conn2, "second")
    /\ backlog' = <<>>
    /\ UNCHANGED <<q, sSent, sKilledAt, sAccepts, sClient>>
    /\ UNCHANGED <<mvars, tvars, pvars, cmds, yvars>>

serve_file ==
    \/ Serve_Bind
    \/ Serve_PutPort
    \/ Serve_Listen
    \/ Serve_Accept
    \/ Serve_Send
    \/ Serve_CloseClient
    \/ Serve_CloseServer

(***************************************************************************)
(* Clients of the listening socket (__init__.py 190-191): the first        *)
(* connection attempt, and a second one made after it.                     *)
(***************************************************************************)
\* A client tries to connect: while the socket is open the kernel completes
\* the connection and queues it for accept, else it is refused
Client_Connect ==
    /\ spc # "none"
    /\ wconn = "none"
    /\ wconn' = Connect
    /\ backlog' = Enqueue("first")
    /\ UNCHANGED <<spc, q, sSent, sKilledAt, sAccepts, sClient, conn2>>
    /\ UNCHANGED <<mvars, tvars, pvars, cmds, yvars>>

\* The client goes away before the end of the stream
Client_Close ==
    /\ wconn = "open"
    /\ wconn' = "closed"
    /\ UNCHANGED <<spc, q, sSent, sKilledAt, avars>>
    /\ UNCHANGED <<mvars, tvars, pvars, cmds, yvars>>

\* Another client tries to connect, before or after the first
Other_Connect ==
    /\ spc # "none"
    /\ conn2 = "none"
    /\ conn2' = Connect
    /\ backlog' = Enqueue("second")
    /\ UNCHANGED <<sAccepts, sClient>>
    /\ UNCHANGED <<svars, mvars, tvars, pvars, cmds, yvars>>

\* The other client goes away
Other_Close ==
    /\ conn2 = "open"
    /\ conn2' = "closed"
    /\ UNCHANGED <<sAccepts, sClient, backlog>>
    /\ UNCHANGED <<svars, mvars, tvars, pvars, cmds, yvars>>

(***************************************************************************)
(* The transfer of one image, byte by byte: compress_file (__init__.py     *)
(* 202-225), the send loop of serve_file (192-197) and the writer's        *)
(* pipeline "nc | xzcat | sudo dd" (rpi3.py 323-329).                      *)
(***************************************************************************)
\* The first bytes of a gzip file and of an xz file.
GzipMagic == "1f8b"
XzMagic == "fd377a585a00"

\* Length of the run of equal bytes a non-empty sequence starts with.
RECURSIVE RunLen(_)
RunLen(s) ==
    IF Len(s) >= 2 /\ s[2] = s[1] THEN 1 + RunLen(Tail(s)) ELSE 1

\* The compressed form of a byte sequence: its runs, as length and byte.
RECURSIVE Deflate(_)
Deflate(s) ==
    IF s = <<>> THEN <<>>
    ELSE <<RunLen(s), s[1]>> \o Deflate(SubSeq(s, RunLen(s) + 1, Len(s)))

RECURSIVE Inflate(_)
Inflate(c) ==
    IF Len(c) < 2 THEN <<>>
    ELSE [i \in 1..c[1] |-> c[2]] \o Inflate(SubSeq(c, 3, Len(c)))

\* gzip.open(name, "wb").write: magic, compressed data, length of the input
gzip_compress(image) == <<GzipMagic>> \o Deflate(image) \o <<Len(image)>>

\* xzcat: decompresses a stream in the xz format and gives up, writing
\* nothing, on any other ("File format not recognized")
xzcat(stream) ==
    IF Len(stream) >= 2 /\ stream[1] = XzMagic
    THEN Inflate(SubSeq(stream, 2, Len(stream) - 1))
    ELSE <<>>

\* compress_file: the image is read in chunks, all written through one gzip
\* stream to "<filename>.gz"
RT_Compress ==
    /\ rpc = "compress"
    /\ rFile' = gzip_compress(rImage)
    /\ rpc' = "serve"
    /\ UNCHANGED <<rImage, rStream, rWritten, rStatus>>
    /\ UNCHANGED <<mvars, tvars, pvars, cmds, svars, avars, mntPending, ivars,
                   uvars, ovars, nvars, dvars, hvars>>

\* serve_file lines 193-197: data = f.read(16 MiB); client.send(data), the
\* whole chunk being taken by the socket; at end of file the loop ends
RT_Send ==
    /\ rpc = "serve"
    /\ LET sent == Len(rStream)
           upto == IF sent + ChunkLen < Len(rFile)
                   THEN sent + ChunkLen ELSE Len(rFile)
       IN IF sent < Len(rFile)
          THEN /\ rStream' = rStream \o SubSeq(rFile, sent + 1, upto)
               /\ UNCHANGED rpc
          ELSE /\ rpc' = "write"
               /\ UNCHANGED rStream
    /\ UNCHANGED <<rImage, rFile, rWritten, rStatus>>
    /\ UNCHANGED <<mvars, tvars, pvars, cmds, svars, avars, mntPending, ivars,
                   uvars, ovars, nvars, dvars, hvars>>

\* rpi3.py 323-329: "nc ip port| xzcat| sudo dd of=dev bs=16M": dd writes
\* what xzcat gives it, and the status of the pipeline is dd's
RT_Write ==
    /\ rpc = "write"
    /\ \E r \in {"ok", "fail"} :
        /\ rStatus' = r
        /\ rWritten' = IF r = "ok" THEN xzcat(rStream) ELSE <<>>
    /\ rpc' = "done"
    /\ UNCHANGED <<rImage, rFile, rStream>>
    /\ UNCHANGED <<mvars, tvars, pvars, cmds, svars, avars, mntPending, ivars,
                   uvars, ovars, nvars, dvars, hvars>>

transfer ==
    \/ RT_Compress
    \/ RT_Send
    \/ RT_Write

(***************************************************************************)
(* get_image_type, rpi3.py 87-113, with remote_mount, lines 77-85.         *)
(***************************************************************************)
\* IMAGE_PATH_IDS, lines 37-41, in the order the dict is iterated
IMAGE_PATH_IDS ==
    << [path |-> "etc", img_type |-> "ubuntu"],
       [path |-> "system-data", img_type |-> "core"],
       [path |-> "snaps", img_type |-> "core20"] >>
Markers == {IMAGE_PATH_IDS[i].path : i \in 1..Len(IMAGE_PATH_IDS)}

\* lines 107-109: the img_type of the first path of IMAGE_PATH_IDS that is
\* in dirs, "none" when there is none
RECURSIVE MatchFrom(_, _)
MatchFrom(dirs, i) ==
    IF i > Len(IMAGE_PATH_IDS) THEN "none"
    ELSE IF IMAGE_PATH_IDS[i].path \in dirs THEN IMAGE_PATH_IDS[i].img_type
    ELSE MatchFrom(dirs, i + 1)
Match(dirs) == MatchFrom(dirs, 1)

\* config["test_device"], and the name lsblk gives its i-th partition
TestDevice == "/dev/sda"
PartName(i) == "sda" \o ToString(i)
\* The "children" lsblk can print for the device: its partitions, each
\* with its top-level entries.  For a device without partitions lsblk
\* prints no "children" key at all.
Children == UNION {[1..n -> SUBSET Markers] : n \in 1..MaxParts}

\* No value returned (yet).
NoResult == [type |-> "none", dev |-> "none"]

\* The end of get_image_type by return or by an exception
GIT_End(outcome, result) ==
    /\ ipc' = "done"
    /\ iOutcome' = outcome
    /\ iResult' = result

\* lines 110-112: except Exception: continue
GIT_Continue ==
    /\ ipc' = "mount"
    /\ iIdx' = iIdx + 1
    /\ iDirs' = {}
    /\ iRet' = NoResult
    /\ UNCHANGED <<iOutcome, iResult>>

\* lines 94-101: lsblk -J and the reading of its output
GIT_Lsblk ==
    /\ ipc = "lsblk"
    /\ cmds' = cmds \cup {"lsblk"}
    /\ \E r \in RunResults :
        IF r # "ok"
        THEN GIT_End(RunControlError(r), NoResult) /\ UNCHANGED <<iChildren, iIdx>>
        ELSE \/ /\ GIT_End("KeyError", NoResult)
                /\ UNCHANGED <<iChildren, iIdx>>
             \/ \E c \in Children :
                   /\ iChildren' = c
                   /\ ipc' = "mount"
                   /\ iIdx' = 1
                   /\ UNCHANGED <<iOutcome, iResult>>
    /\ UNCHANGED <<iDev, iDirs, iRet, iFound, mntPending>>
    /\ UNCHANGED <<mvars, tvars, pvars, svars, avars, uvars, ovars, zvars, hvars>>

\* lines 102-104 and 79-81: for dev in dev_list; the mount of remote_mount,
\* whose failure is caught at line 110
GIT_Mount ==
    /\ ipc = "mount"
    /\ iIdx <= Len(iChildren)
    /\ iDev' = PartName(iIdx)
    /\ cmds' = cmds \cup {"mount"}
    /\ \E r \in RunResults :
        IF r = "ok"
        THEN /\ mntPending' = mntPending \cup {PartName(iIdx)}
             /\ ipc' = "ls"
             /\ UNCHANGED <<iIdx, iDirs, iRet, iOutcome, iResult>>
        ELSE GIT_Continue /\ UNCHANGED mntPending
    /\ UNCHANGED <<iChildren, iFound>>
    /\ UNCHANGED <<mvars, tvars, pvars, svars, avars, uvars, ovars, zvars, hvars>>

\* Faulty variant of GIT_Ls: a match returns at once, leaving the scope of
\* remote_mount without its finally clause.
GIT_Ls_ReturnsMounted ==
    /\ ipc = "ls"
    /\ cmds' = cmds \cup {"ls"}
    /\ \E r \in RunResults :
        IF r = "ok" /\ Match(iChildren[iIdx]) # "none"
        THEN /\ GIT_End("return", [type |-> Match(iChildren[iIdx]), dev |-> iDev])
             /\ iFound' = Append(iFound, iDev)
             /\ UNCHANGED <<iDirs, iRet>>
        ELSE /\ ipc' = "umount"
             /\ UNCHANGED <<iDirs, iRet, iFound, iOutcome, iResult>>
    /\ UNCHANGED <<iChildren, iIdx, iDev, mntPending>>
    /\ UNCHANGED <<mvars, tvars, pvars, svars, avars, uvars, ovars, zvars, hvars>>

\* lines 105-109: dirs = self._run_control("ls /mnt") and the search of the
\* marker paths; a match executes return img_type, dev, which first runs
\* the finally clause of remote_mount, as does an exception of ls
GIT_Ls ==
    /\ ipc = "ls"
    /\ cmds' = cmds \cup {"ls"}
    /\ \E r \in RunResults :
        IF r = "ok"
        THEN LET dirs == iChildren[iIdx] IN
             /\ iDirs' = dirs
             /\ IF Match(dirs) # "none"
                THEN /\ iRet' = [type |-> Match(dirs), dev |-> iDev]
                     /\ iFound' = Append(iFound, iDev)
                ELSE UNCHANGED <<iRet, iFound>>
        ELSE UNCHANGED <<iDirs, iRet, iFound>>
    /\ ipc' = "umount"
    /\ UNCHANGED <<iChildren, iIdx, iDev, iOutcome, iResult, mntPending>>
    /\ UNCHANGED <<mvars, tvars, pvars, svars, avars, uvars, ovars, zvars, hvars>>

\* lines 84-85: finally: umount.  When it succeeds a pending return is
\* completed; else the loop goes on, as it does when the umount raises,
\* whose exception takes the place of the return and is caught at line 110
GIT_Umount ==
    /\ ipc = "umount"
    /\ cmds' = cmds \cup {"umount_mnt"}
    /\ mntPending' = mntPending \ {iDev}
    /\ \E r \in RunResults :
        IF r = "ok" /\ iRet # NoResult
        THEN GIT_End("return", iRet) /\ UNCHANGED <<iIdx, iDirs, iRet>>
        ELSE GIT_Continue
    /\ UNCHANGED <<iChildren, iDev, iFound>>
    /\ UNCHANGED <<mvars, tvars, pvars, svars, avars, uvars, ovars, zvars, hvars>>

\* lines 112-113: the list is exhausted; return "unknown", dev
GIT_Unknown ==
    /\ ipc = "mount"
    /\ iIdx > Len(iChildren)
    /\ GIT_End("return", [type |-> "unknown", dev |-> iDev])
    /\ UNCHANGED <<iChildren, iIdx, iDev, iDirs, iRet, iFound, mntPending, cmds>>
    /\ UNCHANGED <<mvars, tvars, pvars, svars, avars, uvars, ovars, zvars, hvars>>

get_image_type ==
    \/ GIT_Lsblk
    \/ GIT_Mount
    \/ GIT_Ls
    \/ GIT_Umount
    \/ GIT_Unknown

(***************************************************************************)
(* Rpi3.provision, rpi3.py 437-478, with the stages it calls.              *)
(***************************************************************************)
ImageTypes == {"ubuntu", "core", "core20", "unknown"}
\* test_username / test_password default to ubuntu / ubuntu (lines 446-451)
TestCreds(job) == IF job = "absent" THEN "ubuntu:ubuntu" ELSE job

\* logger.info / logger.error of a constant message: the entry records the
\* text and the value formatted into it, "none" when the message has no
\* argument (as with every message of provision and wipe_test_device)
Logged(text) == Append(pLog, [text |-> text, arg |-> "none"])

\* One command of flash_test_image has ended with result r
Ran(step, r) == Append(fLog, [step |-> step, result |-> r])

\* An exception raised inside the try block of lines 464-473
PFail(kind) ==
    /\ ppc' = "failed"
    /\ pErr' = Err(kind, pStage)

\* An exception that leaves provision
PRaise(kind) ==
    /\ ppc' = "done"
    /\ pOutcome' = kind

\* lines 439-452: the url check, download and compress_file, all outside
\* the try block
PV_Prepare ==
    /\ ppc = "start"
    /\ IF ~hasUrl
       THEN /\ pLog' = Logged("Bad data passed for provisioning")
            /\ PRaise("ProvisioningError")
       ELSE /\ \E ok \in BOOLEAN :
                 IF ok
                 THEN ppc' = "start_server" /\ UNCHANGED pOutcome
                 ELSE PRaise("URLError")
            /\ UNCHANGED pLog
    /\ UNCHANGED <<pStage, pErr, pPending, hasUrl, hasTestDevice, jobCreds,
                   imageType, imageDev, wipeCalls, wipeResult, wDone, cmds, svars, tvars>>
    /\ UNCHANGED <<avars, mntPending, ivars, uvars, ovars>>
    /\ UNCHANGED <<mvars, zvars, fLog>>

\* lines 453-461: file_server.start()
PV_StartServer ==
    /\ ppc = "start_server"
    /\ spc' = "started"
    /\ ppc' = "get_port"
    /\ UNCHANGED <<pStage, pErr, pOutcome, pPending, hasUrl, hasTestDevice,
                   jobCreds, imageType, imageDev, wipeCalls, wipeResult, wDone, cmds, q, sSent,
                   sKilledAt, wconn, tvars>>
    /\ UNCHANGED <<avars, mntPending, ivars, uvars, ovars>>
    /\ UNCHANGED <<mvars, zvars, hvars>>

\* line 462: server_port = serve_q.get() blocks until a port is there
PV_GetPort ==
    /\ ppc = "get_port"
    /\ q # <<>>
    /\ q' = Tail(q)
    /\ ppc' = "flash_umount"
    /\ pStage' = "flashing"
    /\ pLog' = Logged("Flashing Test Image")
    /\ UNCHANGED <<pErr, pOutcome, pPending, hasUrl, hasTestDevice, jobCreds,
                   imageType, imageDev, wipeCalls, wipeResult, wDone, cmds, spc, sSent, sKilledAt,
                   wconn, tvars>>
    /\ UNCHANGED <<avars, mntPending, ivars, uvars, ovars>>
    /\ UNCHANGED <<mvars, zvars, fLog>>

\* flash_test_image lines 312-322: the unmount; config["test_device"] is
\* looked up before the command is sent
PV_FlashUmount ==
    /\ ppc = "flash_umount"
    /\ IF ~hasTestDevice
       THEN PFail("RecoveryError") /\ UNCHANGED <<cmds, fLog>>
       ELSE /\ cmds' = cmds \cup {"umount_dev"}
            /\ \E r \in RunResults : fLog' = Ran("umount", r)
            /\ ppc' = "flash_write"
            /\ UNCHANGED pErr
    /\ UNCHANGED <<pStage, pOutcome, pPending, hasUrl, hasTestDevice, jobCreds,
                   imageType, imageDev, wipeCalls, wipeResult, wDone, svars, tvars>>
    /\ UNCHANGED <<avars, mntPending, ivars, uvars, ovars>>
    /\ UNCHANGED <<mvars, zvars, pLog>>

\* flash_test_image lines 323-329: the remote command
\* "nc.traditional ip port | xzcat | sudo dd of=dev" is sent and nc tries to
\* connect: it is refused unless the server socket is listening
PV_FlashWrite ==
    /\ ppc = "flash_write"
    /\ cmds' = cmds \cup {"dd"}
    /\ wconn' = Connect
    /\ backlog' = Enqueue("first")
    /\ ppc' = "flash_writing"
    /\ UNCHANGED <<pStage, pErr, pOutcome, pPending, hasUrl, hasTestDevice,
                   jobCreds, imageType, imageDev, wipeCalls, wipeResult, wDone, spc, q, sSent,
                   sKilledAt, tvars>>
    /\ UNCHANGED <<sAccepts, sClient, conn2, mntPending, ivars, uvars, ovars>>
    /\ UNCHANGED <<mvars, zvars, hvars>>

\* flash_test_image lines 329-331: the remote command ends.  Its exit
\* status is that of dd, the last command of the pipeline.  It ends when nc
\* has ended (refused, or end of stream), when xzcat or dd gave up on data
\* received, or by the 1800 s timeout, which ends the local ssh only.
PV_FlashWriteEnd ==
    /\ ppc = "flash_writing"
    /\ \E r \in RunResults :
        /\ \/ r = "timeout"
           \/ wconn \in {"refused", "eof"}
           \/ wconn = "open" /\ sSent >= 1
        /\ wDone' = r
        /\ fLog' = Ran("write", r)
        /\ IF r = "timeout"
           THEN \E c \in {wconn, "closed"} :
                   wconn' = IF wconn = "open" THEN c ELSE wconn
           ELSE wconn' = IF wconn = "open" THEN "closed" ELSE wconn
        /\ IF r = "ok"
           THEN ppc' = "flash_sync" /\ UNCHANGED pErr
           ELSE PFail("ProvisioningError")
    /\ UNCHANGED <<pStage, pOutcome, pPending, hasUrl, hasTestDevice, jobCreds,
                   imageType, imageDev, wipeCalls, wipeResult, cmds, spc, q, sSent, sKilledAt, tvars>>
    /\ UNCHANGED <<avars, mntPending, ivars, uvars, ovars>>
    /\ UNCHANGED <<mvars, zvars, pLog>>

\* Faulty variant of PV_FlashSync: a failure of sync fails the flash.
PV_FlashSync_Raises ==
    /\ ppc = "flash_sync"
    /\ cmds' = cmds \cup {"sync"}
    /\ \E r \in RunResults :
        /\ fLog' = Ran("sync", r)
        /\ IF r = "ok"
           THEN ppc' = "flash_hdparm" /\ UNCHANGED pErr
           ELSE PFail("ProvisioningError")
    /\ UNCHANGED <<pStage, pOutcome, pPending, hasUrl, hasTestDevice,
                   jobCreds, imageType, imageDev, wipeCalls, wipeResult, wDone, svars, tvars>>
    /\ UNCHANGED <<avars, mntPending, ivars, uvars, ovars>>
    /\ UNCHANGED <<mvars, zvars, pLog>>

\* flash_test_image lines 332-337: sync, whose failure is passed over
PV_FlashSync ==
    /\ ppc = "flash_sync"
    /\ cmds' = cmds \cup {"sync"}
    /\ \E r \in RunResults : fLog' = Ran("sync", r)
    /\ ppc' = "flash_hdparm"
    /\ UNCHANGED <<pStage, pErr, pOutcome, pPending, hasUrl, hasTestDevice,
                   jobCreds, imageType, imageDev, wipeCalls, wipeResult, wDone, svars, tvars>>
    /\ UNCHANGED <<avars, mntPending, ivars, uvars, ovars>>
    /\ UNCHANGED <<mvars, zvars, pLog>>

\* flash_test_image lines 338-346: hdparm -z
PV_FlashHdparm ==
    /\ ppc = "flash_hdparm"
    /\ cmds' = cmds \cup {"hdparm"}
    /\ \E r \in RunResults :
        /\ fLog' = Ran("hdparm", r)
        /\ IF r = "ok"
           THEN ppc' = "terminate" /\ UNCHANGED pErr
           ELSE PFail("ProvisioningError")
    /\ UNCHANGED <<pStage, pOutcome, pPending, hasUrl, hasTestDevice, jobCreds,
                   imageType, imageDev, wipeCalls, wipeResult, wDone, svars, tvars>>
    /\ UNCHANGED <<avars, mntPending, ivars, uvars, ovars>>
    /\ UNCHANGED <<mvars, zvars, pLog>>

\* line 466: file_server.terminate() signals the task wherever it is; a
\* task that has ended is left as it is
PV_Terminate ==
    /\ ppc = "terminate"
    /\ IF spc \in ServerEnded
       THEN UNCHANGED <<spc, sKilledAt>>
       ELSE spc' = "terminated" /\ sKilledAt' = spc
    /\ IF spc \in ServerEnded
       THEN UNCHANGED <<wconn, conn2, backlog>>
       ELSE /\ wconn' = Drop(wconn, "first")
            /\ conn2' = Drop(conn2, "second")
            /\ backlog' = <<>>
    /\ ppc' = "inspect"
    /\ fLog' = <<>>
    /\ pStage' = "inspecting"
    /\ UNCHANGED <<pErr, pOutcome, pPending, hasUrl, hasTestDevice, jobCreds,
                   imageType, imageDev, wipeCalls, wipeResult, wDone, cmds, q, sSent, tvars>>
    /\ UNCHANGED <<sAccepts, sClient, mntPending, ivars, uvars, ovars>>
    /\ UNCHANGED <<mvars, zvars, pLog>>

\* line 467: self.get_image_type() is entered (line 93: dev =
\* self.config["test_device"])
PV_Inspect ==
    /\ ppc = "inspect"
    /\ ppc' = "inspecting"
    /\ ipc' = "lsblk"
    /\ iDev' = TestDevice
    /\ UNCHANGED <<iChildren, iIdx, iDirs, iRet, iFound, iResult, iOutcome>>
    /\ UNCHANGED <<pStage, pErr, pOutcome, pPending, hasUrl, hasTestDevice,
                   jobCreds, imageType, imageDev, wipeCalls, wipeResult,
                   wDone, cmds, svars, tvars>>
    /\ UNCHANGED <<avars, mntPending, uvars, ovars>>
    /\ UNCHANGED <<mvars, zvars, hvars>>

\* line 467: get_image_type has returned, image_type, image_dev = its
\* value, or it has raised; its locals are gone
PV_InspectDone ==
    /\ ppc = "inspecting"
    /\ ipc = "done"
    /\ IF iOutcome = "return"
       THEN /\ imageType' = iResult.type
            /\ imageDev' = iResult.dev
            /\ ppc' = "seed_mount"
            /\ pStage' = "seeding"
            /\ UNCHANGED pErr
       ELSE /\ PFail(iOutcome)
            /\ UNCHANGED <<imageType, imageDev, pStage>>
    /\ ipc' = "idle"
    /\ iChildren' = <<>>
    /\ iIdx' = 0
    /\ iDev' = "none"
    /\ iDirs' = {}
    /\ iRet' = NoResult
    /\ iFound' = <<>>
    /\ iResult' = NoResult
    /\ iOutcome' = "none"
    /\ UNCHANGED <<pOutcome, pPending, hasUrl, hasTestDevice, jobCreds,
                   wipeCalls, wipeResult, wDone, cmds, svars, tvars>>
    /\ UNCHANGED <<avars, mntPending, uvars, ovars>>
    /\ UNCHANGED <<mvars, zvars, hvars>>

\* Faulty variant of PV_SeedMount: a failure of the mount is passed over
\* and create_user is called all the same.
PV_SeedMount_IgnoresFailure ==
    /\ ppc = "seed_mount"
    /\ cmds' = cmds \cup {"mount"}
    /\ \E r \in RunResults :
        mntPending' = IF r = "ok" THEN {imageDev} ELSE mntPending
    /\ ppc' = "seed_create"
    /\ pLog' = Logged("Creating Test User")
    /\ UNCHANGED <<pStage, pErr, pOutcome, pPending, hasUrl, hasTestDevice,
                   jobCreds, imageType, imageDev, wipeCalls, wipeResult,
                   wDone, svars, tvars>>
    /\ UNCHANGED <<avars, ivars, uvars, ovars>>
    /\ UNCHANGED <<mvars, zvars, fLog>>

\* line 468, remote_mount lines 79-81: the mount of image_dev
PV_SeedMount ==
    /\ ppc = "seed_mount"
    /\ cmds' = cmds \cup {"mount"}
    /\ \E r \in RunResults :
        IF r = "ok"
        THEN /\ mntPending' = mntPending \cup {imageDev}
             /\ ppc' = "seed_create"
             /\ pLog' = Logged("Creating Test User")
             /\ UNCHANGED pErr
        ELSE PFail(RunControlError(r)) /\ UNCHANGED <<mntPending, pLog>>
    /\ UNCHANGED <<pStage, pOutcome, pPending, hasUrl, hasTestDevice, jobCreds,
                   imageType, imageDev, wipeCalls, wipeResult, wDone, svars, tvars>>
    /\ UNCHANGED <<avars, ivars, uvars, ovars>>
    /\ UNCHANGED <<mvars, zvars, fLog>>

\* Faulty variant of create_user: core is seeded under the mount root.
create_user_FlatRoot(image_type) ==
    IF image_type = "core20"
    THEN << [op |-> "mkdir", path |-> "/mnt/data/etc/cloud/cloud.cfg.d"],
            [op |-> "write",
             path |-> "/mnt/data/etc/cloud/cloud.cfg.d/99_nocloud.cfg"] >>
    ELSE << [op |-> "mkdir", path |-> "/mnt/var/lib/cloud/seed/nocloud-net"],
            [op |-> "write",
             path |-> "/mnt/var/lib/cloud/seed/nocloud-net/meta-data"],
            [op |-> "write",
             path |-> "/mnt/var/lib/cloud/seed/nocloud-net/user-data"] >>
         \o IF image_type = "ubuntu"
            THEN << [op |-> "rm",
                     path |-> "/mnt/etc/cloud/cloud.cfg.d/99-fake?cloud.cfg"] >>
            ELSE << >>

\* create_user, lines 377-407: the commands it sends for image_type, in
\* order
create_user(image_type) ==
    LET base == IF image_type = "core" THEN "/mnt/system-data" ELSE "/mnt"
    IN IF image_type = "core20"
       THEN LET ci_path == base \o "/data/etc/cloud/cloud.cfg.d"
            IN << [op |-> "mkdir", path |-> ci_path],
                  [op |-> "write", path |-> ci_path \o "/99_nocloud.cfg"] >>
       ELSE LET ci_path == base \o "/var/lib/cloud/seed/nocloud-net"
            IN << [op |-> "mkdir", path |-> ci_path],
                  [op |-> "write", path |-> ci_path \o "/meta-data"],
                  [op |-> "write", path |-> ci_path \o "/user-data"] >>
               \o IF image_type = "ubuntu"
                  THEN << [op |-> "rm",
                           path |-> base \o
                               "/etc/cloud/cloud.cfg.d/99-fake?cloud.cfg"] >>
                  ELSE << >>

\* line 470: self.create_user(image_type) sends its next command; the
\* failure of any is raised as ProvisioningError (lines 408-409), and after
\* the last the call returns
PV_CreateUser ==
    /\ ppc = "seed_create"
    /\ LET script == create_user(imageType)
           cmd == script[Len(uSent) + 1]
       IN /\ uSent' = Append(uSent, cmd)
          /\ uScope' = mntPending
          /\ cmds' = cmds \cup {cmd.op}
          /\ \E r \in RunResults :
              IF r = "ok"
              THEN /\ uFiles' = IF cmd.op = "write"
                                THEN uFiles \cup {cmd.path} ELSE uFiles
                   /\ uRemoved' = IF cmd.op = "rm"
                                  THEN uRemoved \cup {cmd.path} ELSE uRemoved
                   /\ ppc' = IF Len(uSent) + 1 = Len(script)
                             THEN "seed_umount" ELSE "seed_create"
                   /\ UNCHANGED pPending
              ELSE /\ pPending' = "ProvisioningError"
                   /\ ppc' = "seed_umount"
                   /\ UNCHANGED <<uFiles, uRemoved>>
    /\ UNCHANGED <<pStage, pErr, pOutcome, hasUrl, hasTestDevice, jobCreds,
                   imageType, imageDev, wipeCalls, wipeResult, wDone, svars, tvars>>
    /\ UNCHANGED <<avars, mntPending, ivars, ovars>>
    /\ UNCHANGED <<mvars, zvars, hvars>>

\* Faulty variant of PV_SeedUmount: after the seeding the run goes to the
\* boot test at once and the post-provision script is left out.
PV_SeedUmount_SkipsPost ==
    /\ ppc = "seed_umount"
    /\ cmds' = cmds \cup {"umount_mnt"}
    /\ mntPending' = mntPending \ {imageDev}
    /\ \E r \in RunResults :
        IF r # "ok"
        THEN PFail(RunControlError(r))
        ELSE IF pPending # "none"
             THEN PFail(pPending)
             ELSE ppc' = "boot_test" /\ UNCHANGED pErr
    /\ pPending' = "none"
    /\ UNCHANGED <<pStage, pOutcome, hasUrl, hasTestDevice, jobCreds, imageType,
                   imageDev, wipeCalls, wipeResult, wDone, svars, tvars>>
    /\ UNCHANGED <<avars, ivars, uvars, ovars>>
    /\ UNCHANGED <<mvars, zvars, hvars>>

\* remote_mount lines 84-85: the finally clause.  An exception of the
\* unmount takes the place of the one raised in the with-block.
PV_SeedUmount ==
    /\ ppc = "seed_umount"
    /\ cmds' = cmds \cup {"umount_mnt"}
    /\ mntPending' = mntPending \ {imageDev}
    /\ \E r \in RunResults :
        IF r # "ok"
        THEN PFail(RunControlError(r)) /\ UNCHANGED pStage
        ELSE IF pPending # "none"
             THEN PFail(pPending) /\ UNCHANGED pStage
             ELSE ppc' = "post" /\ pStage' = "post" /\ UNCHANGED pErr
    /\ pPending' = "none"
    /\ UNCHANGED <<pOutcome, hasUrl, hasTestDevice, jobCreds, imageType, imageDev,
                   wipeCalls, wipeResult, wDone, svars, tvars>>
    /\ UNCHANGED <<avars, ivars, uvars, ovars>>
    /\ UNCHANGED <<mvars, zvars, hvars>>

\* line 471: run_post_provision_script is entered (line 430):
\* self.config.get("post_provision_script", [])
PV_Post ==
    /\ ppc = "post"
    /\ \E n \in 0..MaxPost : postScript' = n
    /\ ppc' = "post_run"
    /\ UNCHANGED postLog
    /\ UNCHANGED <<pStage, pErr, pOutcome, pPending, hasUrl, hasTestDevice,
                   jobCreds, imageType, imageDev, wipeCalls, wipeResult,
                   wDone, cmds, svars, tvars>>
    /\ UNCHANGED <<avars, mntPending, ivars, uvars>>
    /\ UNCHANGED <<mvars, zvars, hvars>>

\* Faulty variant of PV_PostCmd: the failure of a command is raised.
PV_PostCmd_Raises ==
    /\ ppc = "post_run"
    /\ Len(postLog) < postScript
    /\ cmds' = cmds \cup {"post"}
    /\ \E r \in RunResults :
        /\ postLog' = Append(postLog, r)
        /\ IF r = "ok"
           THEN UNCHANGED <<ppc, pErr>>
           ELSE PFail(RunControlError(r))
    /\ UNCHANGED postScript
    /\ UNCHANGED <<pStage, pOutcome, pPending, hasUrl, hasTestDevice,
                   jobCreds, imageType, imageDev, wipeCalls, wipeResult,
                   wDone, svars, tvars>>
    /\ UNCHANGED <<avars, mntPending, ivars, uvars>>
    /\ UNCHANGED <<mvars, zvars, hvars>>

\* lines 430-435: the next command of the script is run; its failure is
\* logged and passed over
PV_PostCmd ==
    /\ ppc = "post_run"
    /\ Len(postLog) < postScript
    /\ cmds' = cmds \cup {"post"}
    /\ \E r \in RunResults : postLog' = Append(postLog, r)
    /\ UNCHANGED postScript
    /\ UNCHANGED <<ppc, pStage, pErr, pOutcome, pPending, hasUrl, hasTestDevice,
                   jobCreds, imageType, imageDev, wipeCalls, wipeResult,
                   wDone, svars, tvars>>
    /\ UNCHANGED <<avars, mntPending, ivars, uvars>>
    /\ UNCHANGED <<mvars, zvars, hvars>>

\* line 430: the script is exhausted; run_post_provision_script returns
PV_PostReturn ==
    /\ ppc = "post_run"
    /\ Len(postLog) = postScript
    /\ ppc' = "boot_test"
    /\ pLog' = Logged("Booting Test Image")
    /\ UNCHANGED <<pStage, pErr, pOutcome, pPending, hasUrl, hasTestDevice,
                   jobCreds, imageType, imageDev, wipeCalls, wipeResult,
                   wDone, cmds, svars, tvars>>
    /\ UNCHANGED <<avars, mntPending, ivars, uvars, ovars>>
    /\ UNCHANGED <<mvars, zvars, fLog>>

\* line 473: self.ensure_test_image(test_username, test_password) is
\* entered; the locals of run_post_provision_script are gone
PV_BootTest ==
    /\ ppc = "boot_test"
    /\ postScript' = 0
    /\ postLog' = <<>>
    /\ ppc' = "booting"
    /\ pStage' = "booting"
    /\ tpc' = "start"
    /\ tCreds' = TestCreds(jobCreds)
    /\ UNCHANGED <<pErr, pOutcome, pPending, hasUrl, hasTestDevice, jobCreds,
                   imageType, imageDev, wipeCalls, wipeResult, wDone, cmds, svars, tElapsed,
                   tOutcome, tBooted, tHs, tProbed, tIters, tSetbootOk,
                   tReboot, tSettled, tHsCreds, tScript>>
    /\ UNCHANGED <<avars, mntPending, ivars, uvars>>
    /\ UNCHANGED <<mvars, zvars, hvars>>

\* lines 473-478: ensure_test_image has returned or raised
PV_BootDone ==
    /\ ppc = "booting"
    /\ tpc = "done"
    /\ IF tOutcome = "return"
       THEN /\ ppc' = "done"
            /\ pStage' = "verified"
            /\ pOutcome' = "return"
            /\ pLog' = Logged("END provision")
            /\ UNCHANGED pErr
       ELSE PFail(tOutcome) /\ UNCHANGED <<pStage, pOutcome, pLog>>
    /\ UNCHANGED <<pPending, hasUrl, hasTestDevice, jobCreds, imageType, imageDev,
                   wipeCalls, wipeResult, wDone, cmds, svars, tvars>>
    /\ UNCHANGED <<avars, mntPending, ivars, uvars, ovars>>
    /\ UNCHANGED <<mvars, zvars, fLog>>

\* Faulty variant of wipe_test_device: the device is read with a default
\* (config.get), so wipefs is sent also when test_device is missing.
wipe_test_device_NoLookup ==
    /\ wipeCalls' = wipeCalls + 1
    /\ pLog' = Logged("Failed to write image, cleaning up...")
    /\ cmds' = cmds \cup {"wipefs"}
    /\ \E r \in RunResults : wipeResult' = r

\* wipe_test_device, lines 411-425: the lookup of test_device and the
\* wipefs command are both inside the try, and every failure is passed over
wipe_test_device ==
    /\ wipeCalls' = wipeCalls + 1
    /\ IF hasTestDevice
       THEN /\ pLog' = Logged("Failed to write image, cleaning up...")
            /\ cmds' = cmds \cup {"wipefs"}
            /\ \E r \in RunResults : wipeResult' = r
       ELSE /\ wipeResult' = "KeyError"
            /\ UNCHANGED <<cmds, pLog>>

\* Faulty variant of PV_Wipe: a failure of the wipe is not passed over and
\* leaves provision in place of the original exception.
PV_Wipe_RaisesWipeError ==
    /\ ppc = "failed"
    /\ wipe_test_device
    /\ fLog' = <<>>
    /\ IF wipeResult' \in {"fail", "timeout"}
       THEN PRaise(RunControlError(wipeResult'))
       ELSE PRaise(pErr.kind)
    /\ UNCHANGED <<pStage, pErr, pPending, hasUrl, hasTestDevice, jobCreds,
                   imageType, imageDev, wDone, svars, tvars>>
    /\ UNCHANGED <<avars, mntPending, ivars, uvars, ovars>>
    /\ UNCHANGED <<mvars, zvars>>

\* lines 474-477: except Exception: self.wipe_test_device(); raise
PV_Wipe ==
    /\ ppc = "failed"
    /\ wipe_test_device
    /\ fLog' = <<>>
    /\ PRaise(pErr.kind)
    /\ UNCHANGED <<pStage, pErr, pPending, hasUrl, hasTestDevice, jobCreds,
                   imageType, imageDev, wDone, svars, tvars>>
    /\ UNCHANGED <<avars, mntPending, ivars, uvars, ovars>>
    /\ UNCHANGED <<mvars, zvars>>

provision ==
    \/ PV_Prepare
    \/ PV_StartServer
    \/ PV_GetPort
    \/ PV_FlashUmount
    \/ PV_FlashWrite
    \/ PV_FlashWriteEnd
    \/ PV_FlashSync
    \/ PV_FlashHdparm
    \/ PV_Terminate
    \/ PV_Inspect
    \/ PV_InspectDone
    \/ PV_SeedMount
    \/ PV_CreateUser
    \/ PV_SeedUmount
    \/ PV_Post
    \/ PV_PostCmd
    \/ PV_PostReturn
    \/ PV_BootTest
    \/ PV_BootDone
    \/ PV_Wipe

(***************************************************************************)
(* Maas2.node_release, maas2.py 103-118, with node_status, lines 87-101.   *)
(***************************************************************************)
\* for timeout in range(0, 10) and time.sleep(5)
ReleasePolls == 10
ReleaseSleep == 5
\* The status_name maas reports for a node (docstring of node_status)
NodeStatuses == {"Ready", "Allocated", "Deploying", "Deployed"}

NR_End(outcome) ==
    /\ npc' = "done"
    /\ nOutcome' = outcome

\* lines 105-108: subprocess.check_call of "maas ... machine release"
NR_Release ==
    /\ npc = "release"
    /\ \E ok \in BOOLEAN :
        IF ok
        THEN npc' = "poll" /\ UNCHANGED nOutcome
        ELSE NR_End("CalledProcessError")
    /\ UNCHANGED <<nStatuses, nElapsed>>
    /\ UNCHANGED <<mvars, tvars, pvars, cmds, svars, avars, mntPending, ivars,
                   uvars, ovars, rvars, dvars, hvars>>

\* Faulty variant of NR_Poll: a poll reporting Ready does not end the loop.
NR_Poll_KeepsPolling ==
    /\ npc = "poll"
    /\ Len(nStatuses) < ReleasePolls
    /\ nElapsed' = nElapsed + ReleaseSleep
    /\ \E status \in NodeStatuses : nStatuses' = Append(nStatuses, status)
    /\ UNCHANGED <<npc, nOutcome>>
    /\ UNCHANGED <<mvars, tvars, pvars, cmds, svars, avars, mntPending, ivars,
                   uvars, ovars, rvars, dvars, hvars>>

\* lines 110-114: time.sleep(5); status = self.node_status(), whose command
\* (check_output, line 99) raises when it fails; return when Ready
NR_Poll ==
    /\ npc = "poll"
    /\ Len(nStatuses) < ReleasePolls
    /\ nElapsed' = nElapsed + ReleaseSleep
    /\ \/ /\ NR_End("CalledProcessError")
          /\ UNCHANGED nStatuses
       \/ \E status \in NodeStatuses :
            /\ nStatuses' = Append(nStatuses, status)
            /\ IF status = "Ready"
               THEN NR_End("return")
               ELSE UNCHANGED <<npc, nOutcome>>
    /\ UNCHANGED <<mvars, tvars, pvars, cmds, svars, avars, mntPending, ivars,
                   uvars, ovars, rvars, dvars, hvars>>

\* lines 115-118: the loop is exhausted; raise RecoveryError
NR_GiveUp ==
    /\ npc = "poll"
    /\ Len(nStatuses) = ReleasePolls
    /\ NR_End("RecoveryError")
    /\ UNCHANGED <<nStatuses, nElapsed>>
    /\ UNCHANGED <<mvars, tvars, pvars, cmds, svars, avars, mntPending, ivars,
                   uvars, ovars, rvars, dvars, hvars>>

node_release ==
    \/ NR_Release
    \/ NR_Poll
    \/ NR_GiveUp

(***************************************************************************)
(* Maas2.provision, maas2.py 44-71, with check_test_image_booted (73-85)   *)
(* and node_status (87-101).                                               *)
(***************************************************************************)
\* for timeout in range(0, 10): time.sleep(60)  (lines 61-62)
DeployPolls == 10
DeploySleep == 60

NoPoll == [status |-> "none", probe |-> "none"]

\* check_test_image_booted, lines 73-85: "snap -h" over ssh with
\* check_output(timeout=60); a bare except returns False, else True
check_test_image_booted(r) == r = "ok"

MP_End(outcome) ==
    /\ dpc' = "done"
    /\ dOutcome' = outcome

\* lines 51-55: subprocess.check_call of "maas ... machines allocate"
MP_Allocate ==
    /\ dpc = "allocate"
    /\ \E ok \in BOOLEAN :
        IF ok
        THEN dpc' = "deploy" /\ UNCHANGED dOutcome
        ELSE MP_End("CalledProcessError")
    /\ UNCHANGED <<dPolls, dProbes, dLast, dElapsed>>
    /\ UNCHANGED <<mvars, tvars, pvars, cmds, svars, avars, mntPending, ivars,
                   uvars, ovars, rvars, nvars, hvars>>

\* lines 56-60: subprocess.check_output of "maas ... machine deploy"
MP_Deploy ==
    /\ dpc = "deploy"
    /\ \E ok \in BOOLEAN :
        IF ok
        THEN dpc' = "poll" /\ UNCHANGED dOutcome
        ELSE MP_End("CalledProcessError")
    /\ UNCHANGED <<dPolls, dProbes, dLast, dElapsed>>
    /\ UNCHANGED <<mvars, tvars, pvars, cmds, svars, avars, mntPending, ivars,
                   uvars, ovars, rvars, nvars, hvars>>

\* Faulty variant of MP_Poll: a poll reporting Deployed ends the call
\* whatever the probe of the test image says.
MP_Poll_TrustsStatus ==
    /\ dpc = "poll"
    /\ Len(dPolls) < DeployPolls
    /\ dElapsed' = dElapsed + DeploySleep
    /\ \E status \in NodeStatuses :
         IF status = "Deployed"
         THEN \E r \in RunResults :
                /\ dProbes' = dProbes + 1
                /\ dLast' = [status |-> status, probe |-> r]
                /\ dPolls' = Append(dPolls, check_test_image_booted(r))
                /\ MP_End("return")
         ELSE /\ dLast' = [status |-> status, probe |-> "none"]
              /\ dPolls' = Append(dPolls, FALSE)
              /\ UNCHANGED <<dpc, dOutcome, dProbes>>
    /\ UNCHANGED <<mvars, tvars, pvars, cmds, svars, avars, mntPending, ivars,
                   uvars, ovars, rvars, nvars, hvars>>

\* lines 61-66: time.sleep(60); status = self.node_status(), whose command
\* (check_output, line 99) raises when it fails; when the status is
\* Deployed the test image is probed, and the call returns if the probe
\* is good
MP_Poll ==
    /\ dpc = "poll"
    /\ Len(dPolls) < DeployPolls
    /\ dElapsed' = dElapsed + DeploySleep
    /\ \/ /\ MP_End("CalledProcessError")
          /\ UNCHANGED <<dPolls, dProbes, dLast>>
       \/ \E status \in NodeStatuses :
            IF status = "Deployed"
            THEN \E r \in RunResults :
                   /\ dProbes' = dProbes + 1
                   /\ dLast' = [status |-> status, probe |-> r]
                   /\ dPolls' = Append(dPolls, check_test_image_booted(r))
                   /\ IF check_test_image_booted(r)
                      THEN MP_End("return")
                      ELSE UNCHANGED <<dpc, dOutcome>>
            ELSE /\ dLast' = [status |-> status, probe |-> "none"]
                 /\ dPolls' = Append(dPolls, FALSE)
                 /\ UNCHANGED <<dpc, dOutcome, dProbes>>
    /\ UNCHANGED <<mvars, tvars, pvars, cmds, svars, avars, mntPending, ivars,
                   uvars, ovars, rvars, nvars, hvars>>

\* lines 67-71: the loop is exhausted; raise ProvisioningError
MP_GiveUp ==
    /\ dpc = "poll"
    /\ Len(dPolls) = DeployPolls
    /\ MP_End("ProvisioningError")
    /\ UNCHANGED <<dPolls, dProbes, dLast, dElapsed>>
    /\ UNCHANGED <<mvars, tvars, pvars, cmds, svars, avars, mntPending, ivars,
                   uvars, ovars, rvars, nvars, hvars>>

maas2_provision ==
    \/ MP_Allocate
    \/ MP_Deploy
    \/ MP_Poll
    \/ MP_GiveUp

(***************************************************************************)
(* Initial states and specifications.                                      *)
(***************************************************************************)
MasterIdle ==
    /\ mElapsed = 0
    /\ mOutcome = "none"
    /\ mDepth = 0
    /\ mResets = 0
    /\ mTotalResets = 0
    /\ mSetboots = 0
    /\ mPolls = 0
    /\ mExhausted = FALSE
    /\ mEntry = "none"
    /\ mLastProbe = NoProbe
    /\ mScript = NoScript

TestIdle ==
    /\ tElapsed = 0
    /\ tOutcome = "none"
    /\ tBooted = FALSE
    /\ tHs = "none"
    /\ tProbed = FALSE
    /\ tIters = 0
    /\ tSetbootOk = FALSE
    /\ tReboot = "none"
    /\ tSettled = FALSE
    /\ tHsCreds = "none"
    /\ tScript = NoScript

InspectIdle ==
    /\ ipc = "idle"
    /\ iChildren = <<>>
    /\ iIdx = 0
    /\ iDev = "none"
    /\ iDirs = {}
    /\ iRet = NoResult
    /\ iFound = <<>>
    /\ iResult = NoResult
    /\ iOutcome = "none"

SeedIdle ==
    /\ uSent = <<>>
    /\ uFiles = {}
    /\ uRemoved = {}
    /\ uScope = {}

PostIdle ==
    /\ postScript = 0
    /\ postLog = <<>>

TransferIdle ==
    /\ rpc = "idle"
    /\ rImage = <<>>
    /\ rFile = <<>>
    /\ rStream = <<>>
    /\ rWritten = <<>>
    /\ rStatus = "none"

ReleaseIdle ==
    /\ npc = "idle"
    /\ nStatuses = <<>>
    /\ nElapsed = 0
    /\ nOutcome = "none"

DeployIdle ==
    /\ dpc = "idle"
    /\ dPolls = <<>>
    /\ dProbes = 0
    /\ dLast = NoPoll
    /\ dElapsed = 0
    /\ dOutcome = "none"

ProvisionIdle ==
    /\ pStage = "idle"
    /\ pErr = NoErr
    /\ pOutcome = "none"
    /\ pPending = "none"
    /\ imageType = "none"
    /\ imageDev = "none"
    /\ mntPending = {}
    /\ InspectIdle
    /\ SeedIdle
    /\ PostIdle
    /\ wipeCalls = 0
    /\ wipeResult = "none"
    /\ wDone = "no"
    /\ cmds = {}
    /\ pLog = <<>>
    /\ fLog = <<>>

\* No port put, nothing sent, no connection made.
ServerFresh ==
    /\ q = <<>>
    /\ sSent = 0
    /\ sKilledAt = "none"
    /\ wconn = "none"
    /\ sAccepts = 0
    /\ sClient = "none"
    /\ backlog = <<>>
    /\ conn2 = "none"

ServerIdle ==
    /\ spc = "none"
    /\ ServerFresh

\* One call of ensure_master_image (the agent's recovery entry point).
MasterInit ==
    /\ mpc = "start"
    /\ MasterIdle
    /\ tpc = "idle" /\ tCreds = "none" /\ TestIdle
    /\ ppc = "idle" /\ ProvisionIdle
    /\ hasUrl = TRUE /\ hasTestDevice = TRUE /\ jobCreds = "absent"
    /\ ServerIdle
    /\ TransferIdle
    /\ ReleaseIdle
    /\ DeployIdle

MasterNext == ensure_master_image

SpecMaster == MasterInit /\ [][MasterNext]_vars

\* The interpreter runs the call to its end: a step that can be taken is
\* eventually taken.
FairSpecMaster == SpecMaster /\ WF_vars(MasterNext)

\* One call of ensure_test_image with either set of credentials.
TestInit ==
    /\ mpc = "idle" /\ MasterIdle
    /\ tpc = "start"
    /\ tCreds \in {"ubuntu:ubuntu", "tester:secret"}
    /\ TestIdle
    /\ ppc = "idle" /\ ProvisionIdle
    /\ hasUrl = TRUE /\ hasTestDevice = TRUE /\ jobCreds = "absent"
    /\ ServerIdle
    /\ TransferIdle
    /\ ReleaseIdle
    /\ DeployIdle

TestNext == ensure_test_image

SpecTest == TestInit /\ [][TestNext]_vars

\* One provisioning run, over every config and job the run can be given.
Init ==
    /\ mpc = "idle" /\ MasterIdle
    /\ tpc = "idle" /\ tCreds = "none" /\ TestIdle
    /\ ppc = "start" /\ ProvisionIdle
    /\ hasUrl \in BOOLEAN
    /\ hasTestDevice \in BOOLEAN
    /\ jobCreds \in {"absent", "tester:secret"}
    /\ ServerIdle
    /\ TransferIdle
    /\ ReleaseIdle
    /\ DeployIdle

Next ==
    \/ provision
    \/ serve_file
    \/ get_image_type
    \/ ensure_test_image

Spec == Init /\ [][Next]_vars

\* One invocation of serve_file (the task has been started) with the
\* clients of its socket.
ServeInit ==
    /\ mpc = "idle" /\ MasterIdle
    /\ tpc = "idle" /\ tCreds = "none" /\ TestIdle
    /\ ppc = "idle" /\ ProvisionIdle
    /\ hasUrl = TRUE /\ hasTestDevice = TRUE /\ jobCreds = "absent"
    /\ spc = "started"
    /\ ServerFresh
    /\ TransferIdle
    /\ ReleaseIdle
    /\ DeployIdle

ServeNext ==
    \/ serve_file
    \/ Client_Connect
    \/ Client_Close
    \/ Other_Connect
    \/ Other_Close

SpecServe == ServeInit /\ [][ServeNext]_vars

\* Every image of at most MaxImageLen bytes.
Images == UNION {[1..n -> Bytes] : n \in 0..MaxImageLen}

\* The transfer of one downloaded image to the target device.
TransferInit ==
    /\ mpc = "idle" /\ MasterIdle
    /\ tpc = "idle" /\ tCreds = "none" /\ TestIdle
    /\ ppc = "idle" /\ ProvisionIdle
    /\ hasUrl = TRUE /\ hasTestDevice = TRUE /\ jobCreds = "absent"
    /\ ServerIdle
    /\ ReleaseIdle
    /\ DeployIdle
    /\ rpc = "compress"
    /\ rImage \in Images
    /\ rFile = <<>> /\ rStream = <<>> /\ rWritten = <<>> /\ rStatus = "none"

TransferNext == transfer

SpecTransfer == TransferInit /\ [][TransferNext]_vars

\* One call of Maas2.node_release.
ReleaseInit ==
    /\ mpc = "idle" /\ MasterIdle
    /\ tpc = "idle" /\ tCreds = "none" /\ TestIdle
    /\ ppc = "idle" /\ ProvisionIdle
    /\ hasUrl = TRUE /\ hasTestDevice = TRUE /\ jobCreds = "absent"
    /\ ServerIdle
    /\ TransferIdle
    /\ npc = "release"
    /\ nStatuses = <<>> /\ nElapsed = 0 /\ nOutcome = "none"
    /\ DeployIdle

ReleaseNext == node_release

SpecRelease == ReleaseInit /\ [][ReleaseNext]_vars

\* One call of Maas2.provision.
DeployInit ==
    /\ mpc = "idle" /\ MasterIdle
    /\ tpc = "idle" /\ tCreds = "none" /\ TestIdle
    /\ ppc = "idle" /\ ProvisionIdle
    /\ hasUrl = TRUE /\ hasTestDevice = TRUE /\ jobCreds = "absent"
    /\ ServerIdle
    /\ TransferIdle
    /\ ReleaseIdle
    /\ dpc = "allocate"
    /\ dPolls = <<>> /\ dProbes = 0 /\ dLast = NoPoll
    /\ dElapsed = 0 /\ dOutcome = "none"

DeployNext == maas2_provision

SpecDeploy == DeployInit /\ [][DeployNext]_vars

\* One call of get_image_type (line 93 done: dev = config["test_device"]).
InspectInit ==
    /\ mpc = "idle" /\ MasterIdle
    /\ tpc = "idle" /\ tCreds = "none" /\ TestIdle
    /\ ppc = "idle"
    /\ pStage = "idle" /\ pErr = NoErr /\ pOutcome = "none"
    /\ pPending = "none" /\ imageType = "none" /\ imageDev = "none"
    /\ wipeCalls = 0 /\ wipeResult = "none" /\ wDone = "no" /\ cmds = {}
    /\ pLog = <<>> /\ fLog = <<>>
    /\ mntPending = {}
    /\ SeedIdle /\ PostIdle
    /\ hasUrl = TRUE /\ hasTestDevice = TRUE /\ jobCreds = "absent"
    /\ ServerIdle /\ TransferIdle /\ ReleaseIdle /\ DeployIdle
    /\ ipc = "lsblk"
    /\ iChildren = <<>> /\ iIdx = 0 /\ iDev = TestDevice /\ iDirs = {}
    /\ iRet = NoResult /\ iFound = <<>> /\ iResult = NoResult
    /\ iOutcome = "none"

InspectNext == get_image_type

SpecInspect == InspectInit /\ [][InspectNext]_vars

(***************************************************************************)
(* Properties of ensure_master_image.                                      *)
(***************************************************************************)
\* C1: every call of ensure_master_image ends, by returning or by raising:
\* it never goes on resetting, polling and re-invoking itself for ever.
\* Checked under FairSpecMaster.
C1_Terminates == <>(mpc = "done")

\* C2: when a poll of ensure_master_image runs out of its 300 s budget
\* (the boot-mode and reset commands before it having succeeded and no
\* probe of the control image having answered true), the call ends there
\* with RecoveryError: not with a return, not with another error.
C2_ExhaustedPollRaisesRecoveryError ==
    mExhausted => (mpc = "done" /\ mOutcome = "RecoveryError")

C2_Witness ==
    /\ mExhausted
    /\ mpc = "done"
    /\ mOutcome = "RecoveryError"
    /\ mEntry = "test"
    /\ mScript = ScriptRun("reboot_script", 0, "fail")

\* C3 as stated: when RecoveryError is reported after a poll that ran out,
\* the hard reset has been retried once and the device polled again, that
\* is two hard resets and two polls have taken place.
C3_ResetRetriedOnce ==
    (mpc = "done" /\ mExhausted) => (mResets = 2 /\ mPolls = 2)

\* C3 as amended: a poll that runs out of budget ends the call at once; the
\* invocation that reports RecoveryError has made exactly one hard reset
\* and one poll, and a call that made no re-invocation has made exactly
\* one hard reset in all, whether it started test-booted or unknown.
C3_NoRetryAfterExhaustedPoll ==
    mExhausted =>
        /\ mpc = "done"
        /\ mResets = 1
        /\ mPolls = 1
        /\ (mDepth = 0 => mTotalResets = 1)
        /\ mEntry \in {"test", "unknown"}

C3_Witness ==
    /\ mExhausted
    /\ mEntry = "unknown"
    /\ mDepth = 0
    /\ mOutcome = "RecoveryError"

C4_NeverHangs == (tpc # "done") => ENABLED TestNext

\* C5: ensure_test_image returns normally only if setboot("test")
\* succeeded, the settle delay elapsed and, in the last poll iteration, the
\* handshake made with the credentials passed in succeeded and the probe
\* that followed answered true; and a failed soft reboot does not end the
\* call before a poll iteration has been made.
C5_ReturnOnlyAfterHandshakeAndProbe ==
    /\ (tpc = "done" /\ tOutcome = "return") =>
          /\ tSetbootOk
          /\ tSettled
          /\ tHs = "ok"
          /\ tHsCreds = tCreds
          /\ tProbed
          /\ tBooted
    /\ (tpc = "done" /\ tReboot \in {"fail", "timeout"}) => tIters >= 1

C5_Witness ==
    /\ tpc = "done"
    /\ tOutcome = "return"
    /\ tReboot = "fail"
    /\ tHs = "ok"
    /\ tCreds = "tester:secret"

(***************************************************************************)
(* Properties of provision and the image-server task.                      *)
(***************************************************************************)
\* Commands that unmount, overwrite, rescan or wipe the target device.
Destructive == {"umount_dev", "umount_mnt", "dd", "hdparm", "wipefs"}
\* The stages after flashing.
AfterFlash == {"inspecting", "seeding", "post", "booting", "verified"}

\* C6: a failure raised in the flashing, inspecting, seeding, post-provision
\* or boot-test stage is followed by exactly one call of wipe_test_device
\* before provision ends, and provision ends with that failure, whatever
\* the wipe did; no wipe is made before a failure.
C6_WipeThenOriginalError ==
    /\ (ppc = "done" /\ pErr # NoErr) =>
          /\ wipeCalls = 1
          /\ pOutcome = pErr.kind
          /\ pErr.stage = pStage
    /\ (ppc = "done" /\ pStage \notin {"idle", "verified"}) => pErr # NoErr
    /\ (ppc # "done") => wipeCalls = 0

C6_Witness ==
    /\ ppc = "done"
    /\ pErr = Err("ProvisioningError", "seeding")
    /\ wipeResult = "fail"
    /\ pOutcome = "ProvisioningError"

\* C7: with no test_device in the config no destructive command is ever
\* sent to the control host, the run gets no further than flashing, and a
\* run that reached flashing ends with RecoveryError.
C7_NoTestDeviceNoDestructiveCommand ==
    ~hasTestDevice =>
        /\ cmds \cap Destructive = {}
        /\ pStage \in {"idle", "flashing"}
        /\ (ppc = "done" /\ pStage = "flashing") => pOutcome = "RecoveryError"

C7_Witness ==
    /\ ~hasTestDevice
    /\ ppc = "done"
    /\ wipeCalls = 1
    /\ wipeResult = "KeyError"
    /\ pOutcome = "RecoveryError"

\* C8: when provision has ended, the image-server task started for the run
\* has ended too: it is not left listening, blocked in accept or sending.
C8_NoOrphanedListener ==
    (ppc = "done") => (spc \in {"none"} \cup ServerEnded)

\* C9: when the writer's remote command is about to be sent, the server
\* socket is listening.
C9_ListeningBeforeConnect ==
    (ppc = "flash_write") => (spc \notin {"started", "bound", "port_put"})

\* C10: past the flashing stage the writer's command has completed and the
\* server task has itself closed its connection after sending every chunk;
\* provision did not signal it before that.
C10_ServerFinishedBeforeInspect ==
    (pStage \in AfterFlash) =>
        /\ wDone = "ok"
        /\ \/ spc = "closed"
           \/ spc = "terminated" /\ sKilledAt = "client_closed"

\* C11: one invocation of serve_file accepts at most one connection over
\* its whole life: while and after the accepted connection is served no
\* other connection is accepted (a connection that was not the one accepted
\* is never sent the end of stream), and once the transfer has ended the
\* listening socket is closed: no connection is left waiting on it.
C11_AtMostOneAccept ==
    /\ sAccepts <= 1
    /\ (sAccepts = 0) <=> (sClient = "none")
    /\ (sClient # "first") => (wconn # "eof")
    /\ (sClient # "second") => (conn2 # "eof")
    /\ (spc \in ServerEnded) => (backlog = <<>>)
    /\ (spc = "closed") => (sAccepts = 1 /\ sSent = NChunks)

C11_Witness ==
    /\ spc = "closed"
    /\ sAccepts = 1
    /\ sClient = "first"
    /\ wconn = "eof"
    /\ conn2 = "reset"

\* C12: the bytes a successful flash has written to the target device are,
\* byte for byte, the downloaded image: compressing, streaming every chunk
\* whole and in order, and decompressing in the writer's pipeline give back
\* the image.
C12_RoundTrip ==
    (rpc = "done" /\ rStatus = "ok") => (rWritten = rImage)

(***************************************************************************)
(* Properties of get_image_type and remote_mount.                          *)
(***************************************************************************)
\* C13: whenever get_image_type, having enumerated the device, finds no
\* marker path on any partition (the device has no partition, or no
\* partition mounts, lists and holds a marker), it returns "unknown" paired
\* with the name of the last partition enumerated, and raises nothing.
C13_UnknownWithLastPartition ==
    (/\ ipc = "done"
     /\ iOutcome \notin {"ProvisioningError", "TimeoutExpired"}
     /\ iFound = <<>>)
    => /\ iOutcome = "return"
       /\ iResult.type = "unknown"
       /\ Len(iChildren) >= 1
       /\ iResult.dev = PartName(Len(iChildren))

\* The family of a listing by the fixed priority: classic, core, core20.
FamilyOf(dirs) ==
    IF "etc" \in dirs THEN "ubuntu"
    ELSE IF "system-data" \in dirs THEN "core"
    ELSE IF "snaps" \in dirs THEN "core20"
    ELSE "unknown"
\* The entries of the partition called name.
EntriesOf(name) ==
    iChildren[CHOOSE i \in 1..Len(iChildren) : PartName(i) = name]

\* C14: get_image_type returns the first partition, in enumeration order,
\* that mounted, listed and held a marker path, with the family its listing
\* has by the fixed priority; a partition whose mount or listing fails is
\* skipped without ending the scan; a partition on which a marker was found
\* is never passed over for a later partition or for "unknown".
C14_FirstMatchWins ==
    /\ (ipc = "done" /\ iChildren # <<>>) => (iOutcome = "return")
    /\ (ipc = "done" /\ iOutcome = "return") =>
          IF iFound = <<>>
          THEN iResult.type = "unknown"
          ELSE /\ iResult.dev = iFound[1]
               /\ iResult.type = FamilyOf(EntriesOf(iFound[1]))
               /\ Len(iFound) = 1

\* C15: the mount of remote_mount is a scoped acquisition: a partition is
\* pending release exactly from its successful mount to the unmount issued
\* on leaving the with-block (normal end, return with a match, exception);
\* nothing is pending when the next partition is mounted or the call ends,
\* no unmount is issued for a mount that failed, and at most one partition
\* is pending at any time.
C15_MountScoped ==
    /\ Cardinality(mntPending) <= 1
    /\ (ipc \in {"lsblk", "mount", "done"}) => (mntPending = {})
    /\ (ipc \in {"ls", "umount"}) => (mntPending = {iDev})

C15_Witness ==
    /\ ipc = "umount"
    /\ iIdx = 2
    /\ iRet = [type |-> "core", dev |-> PartName(2)]
    /\ mntPending = {PartName(2)}
    /\ "umount_mnt" \in cmds

(***************************************************************************)
(* Properties of create_user, the seeding scope and the post-provision     *)
(* script.                                                                 *)
(***************************************************************************)
\* The seed files of the three families.
ClassicFiles ==
    {"/mnt/var/lib/cloud/seed/nocloud-net/meta-data",
     "/mnt/var/lib/cloud/seed/nocloud-net/user-data"}
CoreFiles ==
    {"/mnt/system-data/var/lib/cloud/seed/nocloud-net/meta-data",
     "/mnt/system-data/var/lib/cloud/seed/nocloud-net/user-data"}
Core20Files == {"/mnt/data/etc/cloud/cloud.cfg.d/99_nocloud.cfg"}
\* The cloud-init fragment that is in the way on classic images.
Fragment == "/mnt/etc/cloud/cloud.cfg.d/99-fake?cloud.cfg"
\* create_user has sent every command it has for the family.
SeedComplete == ppc = "seed_umount" /\ pPending = "none"

\* C16 as stated: for every family passed to create_user, "unknown"
\* included, the files written are those of that family and none of
\* another family's: core20 the one drop-in, core the two seed files under
\* the nested root, classic the two under the mount root, and classic is
\* the only family for which the fragment is deleted.
C16_OnlyOwnFamilyFiles ==
    LET own == CASE imageType = "ubuntu" -> ClassicFiles
                 [] imageType = "core" -> CoreFiles
                 [] imageType = "core20" -> Core20Files
                 [] OTHER -> {}
    IN /\ uFiles \subseteq own
       /\ SeedComplete => (uFiles = own)
       /\ (uRemoved # {}) => (imageType = "ubuntu")

\* C16 as amended: as stated for classic, core and core20; "unknown" is
\* seeded with the layout of classic, the two seed files under the mount
\* root, without the deletion of the fragment.
C16_FamilyLayout ==
    LET layout == CASE imageType = "core" -> CoreFiles
                    [] imageType = "core20" -> Core20Files
                    [] OTHER -> ClassicFiles
    IN /\ uFiles \subseteq layout
       /\ SeedComplete => (uFiles = layout)
       /\ uRemoved \subseteq {Fragment}
       /\ (uRemoved # {}) => (imageType = "ubuntu")
       /\ (SeedComplete /\ imageType = "ubuntu") => (uRemoved = {Fragment})

C16_Witness ==
    /\ SeedComplete
    /\ imageType = "unknown"
    /\ uFiles = ClassicFiles
    /\ uRemoved = {}

\* C17: every command of create_user is sent inside a mount scope of the
\* partition get_image_type returned: that partition is mounted anew after
\* the scopes of detection have closed, create_user is not called when the
\* mount fails, and the unmount is issued after seeding, whether seeding
\* succeeded or failed, before the run goes on or ends.
C17_SeedInsideMountScope ==
    /\ (uSent # <<>>) => (uScope = {imageDev})
    /\ (ppc = "seed_mount") => (mntPending = {} /\ uSent = <<>>)
    /\ (ppc \in {"seed_create", "seed_umount"}) => (mntPending = {imageDev})
    /\ (ppc \in {"post", "post_run", "boot_test", "booting", "failed", "done"})
          => (mntPending = {})
    /\ (uSent # <<>> /\ ppc \notin {"seed_create", "seed_umount"})
          => ("umount_mnt" \in cmds)

C17_Witness ==
    /\ ppc = "failed"
    /\ pErr = Err("ProvisioningError", "seeding")
    /\ imageType = "core"
    /\ Len(uSent) = 2
    /\ uFiles = {}
    /\ uScope = {imageDev}
    /\ mntPending = {}

\* C18: run_post_provision_script attempts every configured command, in
\* order, whatever the earlier ones did, and raises nothing: no failure is
\* ever reported from the post-provision stage and the boot-test stage
\* follows the last command.
C18_PostScriptBestEffort ==
    /\ Len(postLog) <= postScript
    /\ (ppc = "boot_test") => (Len(postLog) = postScript)
    /\ (ppc = "post_run") => ENABLED (PV_PostCmd \/ PV_PostReturn)
    /\ pErr.stage # "post"

C18_Witness ==
    /\ ppc = "boot_test"
    /\ postScript = MaxPost
    /\ postLog[1] = "fail"
    /\ postLog[MaxPost] = "timeout"

(***************************************************************************)
(* Properties of Maas2.node_release.                                       *)
(***************************************************************************)
\* C20: after the release command the status of the node is polled at most
\* ten times; the call returns at the first poll that reports Ready, with no
\* poll after it; and when ten polls have reported a status other than
\* Ready it raises RecoveryError, after exactly the tenth.
C20_ReleasePolledAtMostTenTimes ==
    /\ Len(nStatuses) <= ReleasePolls
    /\ nElapsed <= ReleasePolls * ReleaseSleep
    /\ \A i \in 1..Len(nStatuses) - 1 : nStatuses[i] # "Ready"
    /\ (nOutcome = "return") <=>
          (nStatuses # <<>> /\ nStatuses[Len(nStatuses)] = "Ready")
    /\ (nOutcome = "RecoveryError") <=>
          /\ npc = "done"
          /\ Len(nStatuses) = ReleasePolls
          /\ nStatuses[ReleasePolls] # "Ready"

C20_Witness ==
    /\ npc = "done"
    /\ nOutcome = "RecoveryError"
    /\ Len(nStatuses) = ReleasePolls
    /\ nElapsed = ReleasePolls * ReleaseSleep

(***************************************************************************)
(* Properties of the stages of provision.                                  *)
(***************************************************************************)
\* C21: when get_image_type returns the unknown family, provision does not
\* fail at that point: the run goes on to seeding (and from there to the
\* post-provision script and the boot test) on the partition returned, and
\* the run is flagged as having an unknown image family, that is, some
\* message of its log names the family.
C21_UnknownContinuesAndIsFlagged ==
    imageType = "unknown" =>
        /\ pStage \in {"seeding", "post", "booting", "verified"}
        /\ imageDev # "none"
        /\ \E i \in DOMAIN pLog : pLog[i].arg = imageType

\* C22: with test_device configured, flash_test_image fails exactly when
\* the streaming write (b) or the partition rescan (d) fails, each time
\* with ProvisioningError; a failure of the unmount (a) or of the sync (c)
\* does not fail it; the commands are sent in the order a, b, c, d, once
\* each, and neither (c) nor (d) is sent after a failed (b).
C22_FlashFailsOnWriteOrRescan ==
    hasTestDevice =>
        LET Steps == [i \in DOMAIN fLog |-> fLog[i].step]
            Bad(step) == \E i \in DOMAIN fLog :
                            fLog[i].step = step /\ fLog[i].result # "ok"
            Failed == ppc = "failed" /\ pErr.stage = "flashing"
        IN  /\ Steps = SubSeq(<<"umount", "write", "sync", "hdparm">>,
                              1, Len(fLog))
            /\ Failed <=> (Bad("write") \/ Bad("hdparm"))
            /\ Failed => pErr.kind = "ProvisioningError"
            /\ Bad("write") => Len(fLog) = 2
            /\ ppc = "terminate" => Len(fLog) = 4

\* The flash has returned although the unmount and the sync both failed.
C22_Witness ==
    /\ hasTestDevice
    /\ ppc = "terminate"
    /\ fLog[1] = [step |-> "umount", result |-> "fail"]
    /\ fLog[3] = [step |-> "sync", result |-> "timeout"]

C25_ReturnOnlyAfterTrueMasterProbe ==
    (mpc = "done" /\ mOutcome = "return") =>
        /\ mLastProbe.kind = "master"
        /\ mLastProbe.result
        /\ mLastProbe.run = "ok"
        /\ mLastProbe.gnu

\* A return from the invocation made after the test image was detected in
\* the poll of the unknown-state branch, which then reset the device.
C25_Witness ==
    /\ mpc = "done"
    /\ mOutcome = "return"
    /\ mEntry = "unknown"
    /\ mDepth > 0
    /\ mSetboots > 0
    /\ mLastProbe.kind = "master"

\* C26: when ensure_master_image is called while the probe of the test
\* image is false and the probe of the master image is true, it returns
\* at once: no setboot command and no hard reset is issued, and nothing is
\* polled.
C26_ControlBootedLeftAlone ==
    /\ mEntry = "control" =>
          /\ mpc = "done"
          /\ mOutcome = "return"
          /\ mSetboots = 0
          /\ mTotalResets = 0
          /\ mScript = NoScript
          /\ mPolls = 0
          /\ mElapsed = 0
    /\ (mpc = "done" /\ mOutcome = "return" /\ mPolls = 0) =>
          mResets = 0 /\ ~mScript.failed

C26_Witness ==
    /\ mEntry = "control"
    /\ mpc = "done"
    /\ mOutcome = "return"
    /\ mLastProbe = [kind |-> "master", result |-> TRUE, run |-> "ok",
                     gnu |-> TRUE]

\* C24: in every run of provision the stages start in the order flash,
\* inspect, seed, post-provision, boot test: a stage starts only from the
\* stage before it, with no exception in flight or pending, so none is
\* skipped or repeated; the flash starts only when the image server has
\* been started and its port is taken from the queue; and provision
\* returns normally only after ensure_test_image returned with the test
\* image probed as booted.
C24_StagesInOrder ==
    /\ [](/\ pOutcome = "return" <=> pStage = "verified"
          /\ pStage = "verified" =>
                tpc = "done" /\ tOutcome = "return" /\ tBooted
          /\ pStage # "idle" => spc # "none")
    /\ [][pStage' # pStage =>
            LET Order == <<"idle", "flashing", "inspecting", "seeding",
                           "post", "booting", "verified">>
            IN  /\ \E i \in 1..(Len(Order) - 1) :
                       pStage = Order[i] /\ pStage' = Order[i + 1]
                /\ ppc # "failed" /\ pErr = NoErr /\ pPending = "none"
                /\ pStage' = "flashing" =>
                       spc # "none" /\ q # <<>> /\ q' = Tail(q)]_vars

\* A run that went through every stage and returned.
C24_Witness ==
    /\ ppc = "done"
    /\ pOutcome = "return"
    /\ pStage = "verified"
    /\ Len(pLog) = 4
    /\ {"dd", "mount", "umount_mnt"} \subseteq cmds

(***************************************************************************)
(* Properties of Maas2.provision.                                          *)
(***************************************************************************)
\* C27: Maas2.provision returns normally only at a poll that reports
\* Deployed and whose probe of the test image, made in that same poll,
\* succeeds, and no poll before it did both; the test image is probed only
\* in a poll that reports Deployed; at most ten polls are made; and when
\* ten polls have reported without one doing both, it raises
\* ProvisioningError, after exactly the tenth.
C27_ReturnOnlyAtDeployedAndProbed ==
    /\ Len(dPolls) <= DeployPolls
    /\ dProbes <= Len(dPolls)
    /\ dElapsed <= DeployPolls * DeploySleep
    /\ \A i \in 1..Len(dPolls) - 1 : ~dPolls[i]
    /\ dLast.probe # "none" => dLast.status = "Deployed"
    /\ (dPolls # <<>> /\ dPolls[Len(dPolls)]) <=>
          dLast = [status |-> "Deployed", probe |-> "ok"]
    /\ (dOutcome = "return") <=>
          (dpc = "done" /\ dPolls # <<>> /\ dPolls[Len(dPolls)])
    /\ (dOutcome = "ProvisioningError") <=>
          /\ dpc = "done"
          /\ Len(dPolls) = DeployPolls
          /\ ~dPolls[DeployPolls]

\* Ten polls reported Deployed, the probe failed each time, and the call
\* raised.
C27_Witness ==
    /\ dpc = "done"
    /\ dOutcome = "ProvisioningError"
    /\ Len(dPolls) = DeployPolls
    /\ dProbes = DeployPolls
    /\ dLast = [status |-> "Deployed", probe |-> "timeout"]
    /\ dElapsed = DeployPolls * DeploySleep

====
